---- MODULE Spec2Model ----
(***************************************************************************)
(* Entity span <-> token label alignment of the TEBNER data processors:    *)
(*   BERTSentDataProcessor   (BIO sequence labels),                        *)
(*   BERTWordProcessor       (tie/break connector labels, mask, types),    *)
(*   BERTMentionDataProcessor (mention classification records).            *)
(*                                                                         *)
(* Conventions.  Python lists are sequences; Python's 0-based index i is   *)
(* element i+1 of the sequence (At, SetItem, SliceAssign).  A label string *)
(* "B-" + type is the pair <<"B", type>>, "I-" + type is <<"I", type>>,    *)
(* and "O" is <<"O">>.  An entity object is a record: type is its "type"   *)
(* key, token_begin/token_end are what the aligner returns for it in its   *)
(* unit's text, and bert_token_pos is <<>> while the key is absent and     *)
(* <<begin, end>> once the loader has set it.                              *)
(***************************************************************************)
EXTENDS Integers, Sequences, FiniteSets, TLC

VARIABLES model_config, corpus, call, objs, result

vars == <<model_config, corpus, call, objs, result>>

\* ------------------------------------------------------------------ bounds

\* model_config.max_seq_len of the multi-entity runs.
MaxSeqLen == 5

\* Longest entity_list / distance_entity_list of a unit.
MaxEntities == 2

\* ------------------------------------------------------------- Python lists

Min(a, b) == IF a <= b THEN a ELSE b

Max(a, b) == IF a >= b THEN a ELSE b

\* s[i]
At(s, i) == s[i + 1]

\* [v] * k   (the empty list when k <= 0), built element by element: TLC
\* misreads s[i] of a sequence that is an EXCEPT or a SubSeq of a function
\* constructor [i \in 1..k |-> v]
RECURSIVE Repeat(_, _)
Repeat(v, k) == IF k <= 0 THEN <<>> ELSE Append(Repeat(v, k - 1), v)

\* s[i] = v   for an index inside the list
SetItem(s, i, v) == SubSeq(s, 1, i) \o <<v>> \o SubSeq(s, i + 2, Len(s))

\* vals inserted at lo, with nothing of s replaced
SliceAssign_Insert(s, lo, hi, vals) ==
    SubSeq(s, 1, Min(lo, Len(s))) \o vals \o SubSeq(s, Min(lo, Len(s)) + 1, Len(s))

\* s[lo:hi] = vals   for lo, hi >= 0: the bounds are clamped to len(s), an
\* inverted range is empty at lo, and the list takes the length of vals there.
SliceAssign(s, lo, hi, vals) ==
    LET n == Len(s)
        l == Min(lo, n)
        h == Max(l, Min(hi, n))
    IN  SubSeq(s, 1, l) \o vals \o SubSeq(s, h + 1, n)

\* s[lo:hi]   for lo, hi >= 0
Slice(s, lo, hi) ==
    LET n == Len(s)
        l == Min(lo, n)
        h == Max(l, Min(hi, n))
    IN  SubSeq(s, l + 1, h)

\* ------------------------------------------------------------------ labels

NoPos == <<>>

\* the aligner resolves no token span for the entity
None == <<"None">>

O == <<"O">>

BTag(type) == <<"B", type>>

ITag(type) == <<"I", type>>

\* "bert_token_pos" in entity_obj
HasPos(entity_obj) == entity_obj.bert_token_pos # NoPos

\* ------------------------------------------------- BERTSentDataProcessor

\* get_seq_label with the I- tags written up to token_end exclusive
SeqLabelStep_EndExclusive(seq_label, entity_obj, is_only_boundary) ==
    IF ~HasPos(entity_obj)
    THEN seq_label
    ELSE LET token_begin == entity_obj.bert_token_pos[1]
             token_end == entity_obj.bert_token_pos[2]
             type == IF is_only_boundary THEN "None" ELSE entity_obj.type
         IN  SliceAssign(SetItem(seq_label, token_begin, BTag(type)),
                         token_begin + 1, token_end,
                         Repeat(ITag(type), token_end - token_begin))

\* get_seq_label with every token of the span tagged B-
SeqLabelStep_AllBegin(seq_label, entity_obj, is_only_boundary) ==
    IF ~HasPos(entity_obj)
    THEN seq_label
    ELSE LET token_begin == entity_obj.bert_token_pos[1]
             token_end == entity_obj.bert_token_pos[2]
             type == IF is_only_boundary THEN "None" ELSE entity_obj.type
         IN  SliceAssign(seq_label, token_begin, token_end + 1,
                         Repeat(BTag(type), token_end - token_begin + 1))

\* One iteration of the loop of get_seq_label.
SeqLabelStep(seq_label, entity_obj, is_only_boundary) ==
    IF ~HasPos(entity_obj)
    THEN seq_label
    ELSE LET token_begin == entity_obj.bert_token_pos[1]
             token_end == entity_obj.bert_token_pos[2]
             type == IF is_only_boundary THEN "None" ELSE entity_obj.type
         IN  SliceAssign(SetItem(seq_label, token_begin, BTag(type)),
                         token_begin + 1, token_end + 1,
                         Repeat(ITag(type), token_end - token_begin))

\* the loop of get_seq_label run over the list from its end
RECURSIVE SeqLabelLoop_Reversed(_, _, _)
SeqLabelLoop_Reversed(entity_list, seq_label, is_only_boundary) ==
    IF entity_list = <<>>
    THEN seq_label
    ELSE SeqLabelStep(SeqLabelLoop_Reversed(Tail(entity_list), seq_label, is_only_boundary),
                      Head(entity_list), is_only_boundary)

RECURSIVE SeqLabelLoop(_, _, _)
SeqLabelLoop(entity_list, seq_label, is_only_boundary) ==
    IF entity_list = <<>>
    THEN seq_label
    ELSE SeqLabelLoop(Tail(entity_list),
                      SeqLabelStep(seq_label, Head(entity_list), is_only_boundary),
                      is_only_boundary)

get_seq_label(entity_list, config) ==
    SeqLabelLoop(entity_list, Repeat(O, config.max_seq_len), config.is_only_boundary)

\* ------------------------------------------------------------- the aligner

\* get_entity_token_position(entity_obj, content) /
\* EntityUtil.get_entity_token_pos(entity_obj, content, tokenizer): the
\* unshifted token span of the entity in the tokenised text of its unit.  The
\* tokenizer is external: the span an entity aligns to is carried by the
\* entity (token_begin, token_end) and is the same at every call.
get_entity_token_position(entity_obj) ==
    IF "token_end" \in DOMAIN entity_obj
    THEN <<entity_obj.token_begin, entity_obj.token_end>>
    ELSE None

\* the entity list a unit hands to a loader: split_text_obj[list_name]
ListOf(split_text_obj, list_name) ==
    IF list_name = "entity_list"
    THEN split_text_obj.entity_list
    ELSE split_text_obj.distance_entity_list

\* "token_begin, token_end = <aligner's result>" in a loader's loop "for
\* entity_obj in entity_list": the index of the first entity the loop reaches
\* whose result is None, which the assignment cannot unpack; 0 if there is none
FirstFailing(entity_list, is_skip_unknown) ==
    LET failing == {k \in 1..Len(entity_list) :
                      /\ ~(is_skip_unknown /\ entity_list[k].type = "unknown")
                      /\ get_entity_token_position(entity_list[k]) = None}
    IN  IF failing = {}
        THEN 0
        ELSE CHOOSE k \in failing : \A j \in failing : k <= j

\* the first unit whose loop does not unpack; 0 if every unit's loop does
FailingUnit(units, list_name, is_skip_unknown) ==
    LET failing == {u \in 1..Len(units) :
                      FirstFailing(ListOf(units[u], list_name), is_skip_unknown) # 0}
    IN  IF failing = {}
        THEN 0
        ELSE CHOOSE u \in failing : \A v \in failing : u <= v

\* the units and entities a loader has been through when entity i of unit u
\* raises: the units before u, and unit u with the entities before i
UnitsUntil(units, list_name, u, i) ==
    LET cut == SubSeq(ListOf(units[u], list_name), 1, i - 1)
    IN  Append(SubSeq(units, 1, u - 1),
               IF list_name = "entity_list"
               THEN [units[u] EXCEPT !.entity_list = cut]
               ELSE [units[u] EXCEPT !.distance_entity_list = cut])

\* the entity objects of every unit when entity i of unit u raises: done for
\* the units and entities gone through, as they were for the rest
PartialObjs(done, units, list_name, u, i) ==
    [k \in 1..Len(units) |->
        IF k < u
        THEN done[k]
        ELSE IF k = u
             THEN done[u] \o SubSeq(ListOf(units[u], list_name), i,
                                    Len(ListOf(units[u], list_name)))
             ELSE ListOf(units[k], list_name)]

\* the exception of the assignment, which no loader catches
TypeError == [error |-> "TypeError"]

\* for i in range(3): print(all_data_list[i] ...) in
\* BERTSentDataProcessor.load_dataset: the rows it prints before returning.
PrintedRows == 3

\* ------------------------------------- BERTSentDataProcessor.load_dataset

\* "if is_train or is_dev or is_test": the call labels its units
SentLabelled(f) == f.is_train \/ f.is_dev \/ f.is_test

\* the list the labelled call reads
SentListName(f) ==
    IF f.is_supervised
    THEN "entity_list"
    ELSE IF f.is_train \/ f.is_pred
         THEN "distance_entity_list"
         ELSE "entity_list"

\* the loop of load_dataset with token_end = max_seq_len - 2 let through
SentMemo_EndMinusTwoKept(entity_list, is_skip_unknown, config) ==
    [i \in 1..Len(entity_list) |->
        LET entity_obj == entity_list[i]
            pos == get_entity_token_position(entity_obj)
        IN  IF is_skip_unknown /\ entity_obj.type = "unknown"
            THEN entity_obj
            ELSE IF pos[2] > config.max_seq_len - 2
                 THEN entity_obj
                 ELSE [entity_obj EXCEPT
                         !.bert_token_pos = <<pos[1] + 1, pos[2] + 1>>]]

\* the loop of load_dataset shifting the span an entity already carries
SentMemo_ShiftAgain(entity_list, is_skip_unknown, config) ==
    [i \in 1..Len(entity_list) |->
        LET entity_obj == entity_list[i]
            pos == IF HasPos(entity_obj)
                   THEN entity_obj.bert_token_pos
                   ELSE get_entity_token_position(entity_obj)
        IN  IF is_skip_unknown /\ entity_obj.type = "unknown"
            THEN entity_obj
            ELSE IF get_entity_token_position(entity_obj)[2] >= config.max_seq_len - 2
                 THEN entity_obj
                 ELSE [entity_obj EXCEPT
                         !.bert_token_pos = <<pos[1] + 1, pos[2] + 1>>]]

\* the loop "for entity_obj in entity_list" of load_dataset: the list with
\* bert_token_pos set on the entities that pass
SentMemo(entity_list, is_skip_unknown, config) ==
    [i \in 1..Len(entity_list) |->
        LET entity_obj == entity_list[i]
            pos == get_entity_token_position(entity_obj)
        IN  IF is_skip_unknown /\ entity_obj.type = "unknown"
            THEN entity_obj
            ELSE IF pos[2] >= config.max_seq_len - 2
                 THEN entity_obj
                 ELSE [entity_obj EXCEPT
                         !.bert_token_pos = <<pos[1] + 1, pos[2] + 1>>]]

\* the entity objects of every unit after the call
SentObjs(units, f, config) ==
    [u \in 1..Len(units) |->
        IF SentLabelled(f)
        THEN SentMemo(ListOf(units[u], SentListName(f)), f.is_skip_unknown, config)
        ELSE <<>>]

\* all_data_list: one record per unit (the tokenizer's encoding is left out)
SentDataList(units, f, config) ==
    [u \in 1..Len(units) |->
        [seq_label |-> IF SentLabelled(f)
                       THEN get_seq_label(SentObjs(units, f, config)[u], config)
                       ELSE Repeat(O, config.max_seq_len),
         sent_index |-> u - 1]]

\* what load_dataset returns, or the IndexError of all_data_list[i]
SentResult(units, f, config) ==
    IF Len(units) < PrintedRows
    THEN [error |-> "IndexError"]
    ELSE [all_data_list |-> SentDataList(units, f, config)]

\* the entity objects load_dataset leaves and what it returns or raises
SentOutcome(units, f, config) ==
    LET u == IF SentLabelled(f)
             THEN FailingUnit(units, SentListName(f), f.is_skip_unknown)
             ELSE 0
        i == FirstFailing(ListOf(units[u], SentListName(f)), f.is_skip_unknown)
    IN  IF u = 0
        THEN [objs |-> SentObjs(units, f, config),
              result |-> SentResult(units, f, config)]
        ELSE [objs |-> PartialObjs(SentObjs(UnitsUntil(units, SentListName(f), u, i),
                                            f, config),
                                   units, SentListName(f), u, i),
              result |-> TypeError]

SentLoadDataset(f) ==
    /\ call' = [loader |-> "sent.load_dataset", flags |-> f]
    /\ objs' = SentOutcome(corpus, f, model_config).objs
    /\ result' = SentOutcome(corpus, f, model_config).result
    /\ UNCHANGED <<model_config, corpus>>

\* ------------------ BERTSentDataProcessor.load_label_dataset and
\* ------------------ BERTSentDataProcessor.load_phrase_distance_dataset

\* the loop of load_label_dataset with token_end = max_seq_len - 2 let through
LabelMemo_EndMinusTwoKept(entity_list, config) ==
    [i \in 1..Len(entity_list) |->
        LET entity_obj == entity_list[i]
            pos == get_entity_token_position(entity_obj)
        IN  IF pos[2] > config.max_seq_len - 2
            THEN entity_obj
            ELSE [entity_obj EXCEPT
                    !.bert_token_pos = <<pos[1] + 1, pos[2] + 1>>]]

\* the loop "for entity_obj in entity_list" of load_label_dataset
LabelMemo(entity_list, config) ==
    [i \in 1..Len(entity_list) |->
        LET entity_obj == entity_list[i]
            pos == get_entity_token_position(entity_obj)
        IN  IF pos[2] >= config.max_seq_len - 2
            THEN entity_obj
            ELSE [entity_obj EXCEPT
                    !.bert_token_pos = <<pos[1] + 1, pos[2] + 1>>]]

\* all_sent_obj_dict: sent_index -> the unit, its entity_list annotated
LabelResult(units, config) ==
    [sent_index \in 0..(Len(units) - 1) |->
        [units[sent_index + 1] EXCEPT !.entity_list = LabelMemo(@, config)]]

\* the entity objects load_label_dataset leaves and what it returns or raises
LabelOutcome(units, config) ==
    LET u == FailingUnit(units, "entity_list", FALSE)
        i == FirstFailing(units[u].entity_list, FALSE)
        cut == UnitsUntil(units, "entity_list", u, i)
    IN  IF u = 0
        THEN [objs |-> [k \in 1..Len(units) |-> LabelMemo(units[k].entity_list, config)],
              result |-> LabelResult(units, config)]
        ELSE [objs |-> PartialObjs([k \in 1..Len(cut) |->
                                       LabelMemo(cut[k].entity_list, config)],
                                   units, "entity_list", u, i),
              result |-> TypeError]

SentLoadLabelDataset ==
    /\ call' = [loader |-> "sent.load_label_dataset"]
    /\ objs' = LabelOutcome(corpus, model_config).objs
    /\ result' = LabelOutcome(corpus, model_config).result
    /\ UNCHANGED <<model_config, corpus>>

\* the loop "for entity_obj in phrase_trie.search_entity(content)" of
\* load_phrase_distance_dataset: distance_label_list.  matches is what the
\* trie finds in the unit's text, its types already looked up.
RECURSIVE DistanceLabelList(_, _)
DistanceLabelList(matches, config) ==
    IF matches = <<>>
    THEN <<>>
    ELSE LET entity_obj == Head(matches)
             pos == get_entity_token_position(entity_obj)
         IN  IF pos[2] >= config.max_seq_len - 2
             THEN DistanceLabelList(Tail(matches), config)
             ELSE <<[entity_obj EXCEPT
                       !.bert_token_pos = <<pos[1] + 1, pos[2] + 1>>]>>
                  \o DistanceLabelList(Tail(matches), config)

\* all_sent_entity_dict: sent_index -> distance_label_list
PhraseResult(units, config) ==
    [sent_index \in 0..(Len(units) - 1) |->
        DistanceLabelList(units[sent_index + 1].distance_entity_list, config)]

\* the distance_label_list of every unit gone through and what
\* load_phrase_distance_dataset returns or raises
PhraseOutcome(units, config) ==
    LET u == FailingUnit(units, "distance_entity_list", FALSE)
        i == FirstFailing(units[u].distance_entity_list, FALSE)
        cut == UnitsUntil(units, "distance_entity_list", u, i)
    IN  IF u = 0
        THEN [objs |-> [k \in 1..Len(units) |->
                           DistanceLabelList(units[k].distance_entity_list, config)],
              result |-> PhraseResult(units, config)]
        ELSE [objs |-> [k \in 1..Len(cut) |->
                           DistanceLabelList(cut[k].distance_entity_list, config)],
              result |-> TypeError]

SentLoadPhraseDistanceDataset ==
    /\ call' = [loader |-> "sent.load_phrase_distance_dataset"]
    /\ objs' = PhraseOutcome(corpus, model_config).objs
    /\ result' = PhraseOutcome(corpus, model_config).result
    /\ UNCHANGED <<model_config, corpus>>

\* ------------------------------------- BERTMentionDataProcessor.load_dataset

MentionListName_Gold(f) == "entity_list"

MentionListName(f) ==
    IF f.is_test \/ f.is_dev THEN "entity_list" ELSE "distance_entity_list"

\* model_config.label_list[0], the placeholder label of a predicted mention
PlaceholderLabel == "label_list[0]"

\* the loop body of load_dataset without the window test
MentionEntityStep_NoWindow(entity_obj, f, config) ==
    LET pos == get_entity_token_position(entity_obj)
        token_begin == pos[1]
        token_end == pos[2]
    IN  IF FALSE
        THEN <<>>
        ELSE (IF (f.is_train \/ f.is_dev \/ f.is_test) /\ entity_obj.type # "unknown"
              THEN <<[mention_beg |-> token_begin + 1, mention_end |-> token_end + 1,
                      mention_label |-> entity_obj.type]>>
              ELSE <<>>)
             \o
             (IF f.is_predict /\ entity_obj.type = "unknown"
              THEN <<[mention_beg |-> token_begin + 1, mention_end |-> token_end + 1,
                      mention_label |-> PlaceholderLabel]>>
              ELSE <<>>)

\* One iteration of "for entity_obj in entity_list": the records
\* (mention_beg, mention_end, mention_label) the entity adds.
MentionEntityStep(entity_obj, f, config) ==
    LET pos == get_entity_token_position(entity_obj)
        token_begin == pos[1]
        token_end == pos[2]
    IN  IF token_end >= config.max_seq_len - 2
        THEN <<>>
        ELSE (IF (f.is_train \/ f.is_dev \/ f.is_test) /\ entity_obj.type # "unknown"
              THEN <<[mention_beg |-> token_begin + 1, mention_end |-> token_end + 1,
                      mention_label |-> entity_obj.type]>>
              ELSE <<>>)
             \o
             (IF f.is_predict /\ entity_obj.type = "unknown"
              THEN <<[mention_beg |-> token_begin + 1, mention_end |-> token_end + 1,
                      mention_label |-> PlaceholderLabel]>>
              ELSE <<>>)

RECURSIVE MentionEntityLoop(_, _, _)
MentionEntityLoop(entity_list, f, config) ==
    IF entity_list = <<>>
    THEN <<>>
    ELSE MentionEntityStep(Head(entity_list), f, config)
         \o MentionEntityLoop(Tail(entity_list), f, config)

\* all_data_list of load_dataset, unit after unit
RECURSIVE MentionDataList(_, _, _)
MentionDataList(units, f, config) ==
    IF units = <<>>
    THEN <<>>
    ELSE MentionEntityLoop(ListOf(Head(units), MentionListName(f)), f, config)
         \o MentionDataList(Tail(units), f, config)

\* what load_dataset returns or raises
MentionResult(units, f, config) ==
    IF FailingUnit(units, MentionListName(f), FALSE) = 0
    THEN [all_data_list |-> MentionDataList(units, f, config)]
    ELSE TypeError

\* load_dataset leaves the entity objects as it read them
MentionLoadDataset(f) ==
    /\ call' = [loader |-> "mention.load_dataset", flags |-> f]
    /\ objs' = [u \in 1..Len(corpus) |-> ListOf(corpus[u], MentionListName(f))]
    /\ result' = MentionResult(corpus, f, model_config)
    /\ UNCHANGED <<model_config, corpus>>

\* --------------------------- BERTMentionDataProcessor.output_mention_type

\* One iteration of "for entity_obj in entity_list" of output_mention_type:
\* what the entity adds to all_mention_loc_list, all_mention_content_list and
\* all_mention_form_list.  content is the unit the entity is in.
MentionLocStep(entity_obj, content, config) ==
    LET pos == get_entity_token_position(entity_obj)
        token_begin == pos[1]
        token_end == pos[2]
    IN  IF token_end >= config.max_seq_len - 2
        THEN <<>>
        ELSE IF entity_obj.type = "unknown"
             THEN <<[mention_loc |-> <<token_begin + 1, token_end + 1>>,
                     mention_content |-> content,
                     mention_form |-> entity_obj.form]>>
             ELSE <<>>

RECURSIVE MentionLocLoop(_, _, _)
MentionLocLoop(entity_list, content, config) ==
    IF entity_list = <<>>
    THEN <<>>
    ELSE MentionLocStep(Head(entity_list), content, config)
         \o MentionLocLoop(Tail(entity_list), content, config)

\* the three lists after "for split_text_obj in all_text_obj_list", as one
\* list of rows; units are numbered from content on
RECURSIVE OutputMentionList(_, _, _)
OutputMentionList(units, content, config) ==
    IF units = <<>>
    THEN <<>>
    ELSE MentionLocLoop(Head(units).distance_entity_list, content, config)
         \o OutputMentionList(Tail(units), content + 1, config)

\* the loop over zip(...): one row per mention, as far as the shortest list;
\* token_mention_form is the tokens of the unit from mention_loc[0] to
\* mention_loc[1]
RECURSIVE MentionResultList(_, _, _)
MentionResultList(mentions, all_mention_type_list, all_mention_score_list) ==
    IF mentions = <<>> \/ all_mention_type_list = <<>> \/ all_mention_score_list = <<>>
    THEN <<>>
    ELSE <<[mention_form |-> Head(mentions).mention_form,
            mention_type |-> Head(all_mention_type_list),
            mention_score |-> <<"str", Head(all_mention_score_list)>>,
            token_mention_form |-> <<"tokens", Head(mentions).mention_content,
                                     Head(mentions).mention_loc[1],
                                     Head(mentions).mention_loc[2]>>]>>
         \o MentionResultList(Tail(mentions), Tail(all_mention_type_list),
                              Tail(all_mention_score_list))

\* what output_mention_type returns or raises
OutputResult(units, all_mention_type_list, all_mention_score_list, config) ==
    IF FailingUnit(units, "distance_entity_list", FALSE) # 0
    THEN TypeError
    ELSE IF Len(OutputMentionList(units, 1, config)) # Len(all_mention_type_list)
         THEN [error |-> "AssertionError"]
         ELSE [all_mention_result_list |->
                  MentionResultList(OutputMentionList(units, 1, config),
                                    all_mention_type_list, all_mention_score_list)]

\* output_mention_type(data_path, all_mention_type_list, all_mention_score_list)
\* on the predictions BERTMentionProcess.predict made for the records of the
\* loader, which the call keeps as predicted
OutputMentionType(all_mention_type_list, all_mention_score_list) ==
    /\ call' = [loader |-> "mention.output_mention_type",
                all_mention_type_list |-> all_mention_type_list,
                all_mention_score_list |-> all_mention_score_list,
                predicted |-> result.all_data_list]
    /\ objs' = [u \in 1..Len(corpus) |-> corpus[u].distance_entity_list]
    /\ result' = OutputResult(corpus, all_mention_type_list, all_mention_score_list,
                              model_config)
    /\ UNCHANGED <<model_config, corpus>>

\* ------------------------------------------------------ BERTWordProcessor

\* get_token_label with the connector after the last token tied as well
TokenLabelStep_ThroughEnd(labels, entity_obj, is_only_boundary) ==
    IF ~HasPos(entity_obj)
    THEN labels
    ELSE LET entity_token_begin == entity_obj.bert_token_pos[1]
             entity_token_end == entity_obj.bert_token_pos[2]
             width == entity_token_end - entity_token_begin
             connect_type == IF is_only_boundary THEN "B" ELSE "T"
         IN  [seq_connect_label |->
                 IF entity_obj.type = "unknown"
                 THEN SliceAssign(labels.seq_connect_label, entity_token_begin,
                                  entity_token_end, Repeat(connect_type, width))
                 ELSE SliceAssign(labels.seq_connect_label, entity_token_begin,
                                  entity_token_end + 1, Repeat("T", width + 1)),
              token_connect_mask |->
                 IF entity_obj.type = "unknown"
                 THEN SliceAssign(labels.token_connect_mask, entity_token_begin,
                                  entity_token_end, Repeat(0, width))
                 ELSE labels.token_connect_mask,
              seq_type_label |->
                 SliceAssign(labels.seq_type_label, entity_token_begin,
                             entity_token_end + 1,
                             Repeat(entity_obj.type, width + 1))]

\* get_token_label with unknown-typed entities tied whatever is_only_boundary
TokenLabelStep_AlwaysTie(labels, entity_obj, is_only_boundary) ==
    IF ~HasPos(entity_obj)
    THEN labels
    ELSE LET entity_token_begin == entity_obj.bert_token_pos[1]
             entity_token_end == entity_obj.bert_token_pos[2]
             width == entity_token_end - entity_token_begin
             connect_type == "T"
         IN  [seq_connect_label |->
                 IF entity_obj.type = "unknown"
                 THEN SliceAssign(labels.seq_connect_label, entity_token_begin,
                                  entity_token_end, Repeat(connect_type, width))
                 ELSE SliceAssign(labels.seq_connect_label, entity_token_begin,
                                  entity_token_end, Repeat("T", width)),
              token_connect_mask |->
                 IF entity_obj.type = "unknown"
                 THEN SliceAssign(labels.token_connect_mask, entity_token_begin,
                                  entity_token_end, Repeat(0, width))
                 ELSE labels.token_connect_mask,
              seq_type_label |->
                 SliceAssign(labels.seq_type_label, entity_token_begin,
                             entity_token_end + 1,
                             Repeat(entity_obj.type, width + 1))]

\* get_token_label with the mask left alone
TokenLabelStep_NoMask(labels, entity_obj, is_only_boundary) ==
    IF ~HasPos(entity_obj)
    THEN labels
    ELSE LET entity_token_begin == entity_obj.bert_token_pos[1]
             entity_token_end == entity_obj.bert_token_pos[2]
             width == entity_token_end - entity_token_begin
             connect_type == IF is_only_boundary THEN "B" ELSE "T"
         IN  [seq_connect_label |->
                 IF entity_obj.type = "unknown"
                 THEN SliceAssign(labels.seq_connect_label, entity_token_begin,
                                  entity_token_end, Repeat(connect_type, width))
                 ELSE SliceAssign(labels.seq_connect_label, entity_token_begin,
                                  entity_token_end, Repeat("T", width)),
              token_connect_mask |->
                 IF entity_obj.type = "unknown"
                 THEN labels.token_connect_mask
                 ELSE labels.token_connect_mask,
              seq_type_label |->
                 SliceAssign(labels.seq_type_label, entity_token_begin,
                             entity_token_end + 1,
                             Repeat(entity_obj.type, width + 1))]

\* get_token_label with the mask cleared only when is_only_boundary is off
TokenLabelStep_MaskByMode(labels, entity_obj, is_only_boundary) ==
    IF ~HasPos(entity_obj)
    THEN labels
    ELSE LET entity_token_begin == entity_obj.bert_token_pos[1]
             entity_token_end == entity_obj.bert_token_pos[2]
             width == entity_token_end - entity_token_begin
             connect_type == IF is_only_boundary THEN "B" ELSE "T"
         IN  [seq_connect_label |->
                 IF entity_obj.type = "unknown"
                 THEN SliceAssign(labels.seq_connect_label, entity_token_begin,
                                  entity_token_end, Repeat(connect_type, width))
                 ELSE SliceAssign(labels.seq_connect_label, entity_token_begin,
                                  entity_token_end, Repeat("T", width)),
              token_connect_mask |->
                 IF entity_obj.type = "unknown" /\ ~is_only_boundary
                 THEN SliceAssign(labels.token_connect_mask, entity_token_begin,
                                  entity_token_end, Repeat(0, width))
                 ELSE labels.token_connect_mask,
              seq_type_label |->
                 SliceAssign(labels.seq_type_label, entity_token_begin,
                             entity_token_end + 1,
                             Repeat(entity_obj.type, width + 1))]

\* get_token_label with known-typed entities labelled by connect_type too
TokenLabelStep_KnownByMode(labels, entity_obj, is_only_boundary) ==
    IF ~HasPos(entity_obj)
    THEN labels
    ELSE LET entity_token_begin == entity_obj.bert_token_pos[1]
             entity_token_end == entity_obj.bert_token_pos[2]
             width == entity_token_end - entity_token_begin
             connect_type == IF is_only_boundary THEN "B" ELSE "T"
         IN  [seq_connect_label |->
                 IF entity_obj.type = "unknown"
                 THEN SliceAssign(labels.seq_connect_label, entity_token_begin,
                                  entity_token_end, Repeat(connect_type, width))
                 ELSE SliceAssign(labels.seq_connect_label, entity_token_begin,
                                  entity_token_end, Repeat(connect_type, width)),
              token_connect_mask |->
                 IF entity_obj.type = "unknown"
                 THEN SliceAssign(labels.token_connect_mask, entity_token_begin,
                                  entity_token_end, Repeat(0, width))
                 ELSE labels.token_connect_mask,
              seq_type_label |->
                 SliceAssign(labels.seq_type_label, entity_token_begin,
                             entity_token_end + 1,
                             Repeat(entity_obj.type, width + 1))]

\* One iteration of the loop of get_token_label; labels holds the three lists
\* seq_connect_label, seq_type_label and token_connect_mask.
TokenLabelStep(labels, entity_obj, is_only_boundary) ==
    IF ~HasPos(entity_obj)
    THEN labels
    ELSE LET entity_token_begin == entity_obj.bert_token_pos[1]
             entity_token_end == entity_obj.bert_token_pos[2]
             width == entity_token_end - entity_token_begin
             connect_type == IF is_only_boundary THEN "B" ELSE "T"
         IN  [seq_connect_label |->
                 IF entity_obj.type = "unknown"
                 THEN SliceAssign(labels.seq_connect_label, entity_token_begin,
                                  entity_token_end, Repeat(connect_type, width))
                 ELSE SliceAssign(labels.seq_connect_label, entity_token_begin,
                                  entity_token_end, Repeat("T", width)),
              token_connect_mask |->
                 IF entity_obj.type = "unknown"
                 THEN SliceAssign(labels.token_connect_mask, entity_token_begin,
                                  entity_token_end, Repeat(0, width))
                 ELSE labels.token_connect_mask,
              seq_type_label |->
                 SliceAssign(labels.seq_type_label, entity_token_begin,
                             entity_token_end + 1,
                             Repeat(entity_obj.type, width + 1))]

RECURSIVE TokenLabelLoop(_, _, _)
TokenLabelLoop(entity_list, labels, is_only_boundary) ==
    IF entity_list = <<>>
    THEN labels
    ELSE TokenLabelLoop(Tail(entity_list),
                        TokenLabelStep(labels, Head(entity_list), is_only_boundary),
                        is_only_boundary)

get_token_label(entity_list, is_only_boundary, config) ==
    TokenLabelLoop(entity_list,
                   [seq_connect_label |-> Repeat("B", config.max_seq_len - 1),
                    seq_type_label |-> Repeat("None", config.max_seq_len),
                    token_connect_mask |-> Repeat(1, config.max_seq_len - 1)],
                   is_only_boundary)

\* model_config.type_label_id_dict, model_config.connect_label_id_dict: the
\* configured vocabularies, as injective maps of the label names
type_label_id(type) ==
    CASE type = "per" -> 1
      [] type = "loc" -> 2
      [] OTHER -> 0

connect_label_id(ele) == <<"id", ele>>

\* "if is_train or is_dev or is_test" of BERTWordProcessor.load_dataset
WordLabelled(f) == f.is_train \/ f.is_dev \/ f.is_test

\* the choice of list with the distant list for every call without supervision
WordListName_Distant(f) ==
    IF f.is_supervised THEN "entity_list" ELSE "distance_entity_list"

WordListName(f) ==
    IF f.is_supervised
    THEN "entity_list"
    ELSE IF f.is_train THEN "distance_entity_list" ELSE "entity_list"

\* load_dataset without the joint branch
WordJoint_Never(f) == FALSE

\* "if is_train and not is_only_boundary": one record per entity
WordJoint(f) == f.is_train /\ ~f.is_only_boundary

\* the loop body of load_dataset without "seq_entity_num += 1"
WordEntityStep_NoCount(a, entity_obj, sent_index, f, config) ==
    LET pos == get_entity_token_position(entity_obj)
        entity_token_begin == pos[1]
        entity_token_end == pos[2]
        memo == [entity_obj EXCEPT
                   !.bert_token_pos = <<entity_token_begin + 1, entity_token_end + 1>>]
    IN  IF f.is_skip_unknown /\ entity_obj.type = "unknown"
        THEN [a EXCEPT !.entity_list = Append(@, entity_obj)]
        ELSE IF entity_token_end >= config.max_seq_len - 2
        THEN [a EXCEPT !.entity_list = Append(@, entity_obj)]
        ELSE IF WordJoint(f)
        THEN IF entity_obj.type = "unknown"
             THEN [a EXCEPT !.entity_list = Append(@, memo)]
             ELSE [a EXCEPT
                     !.entity_list = Append(@, memo),
                     !.all_entity_begins = Append(@, entity_token_begin + 1),
                     !.all_entity_ends = Append(@, entity_token_end + 1),
                     !.all_entity_type_labels = Append(@, type_label_id(entity_obj.type))]
        ELSE [a EXCEPT
                !.entity_list = Append(@, memo),
                !.sent_entity_dict =
                    LET old == IF sent_index \in DOMAIN @ THEN @[sent_index] ELSE <<>>
                        new == Append(old, <<entity_token_begin + 1, entity_token_end + 1,
                                             type_label_id(entity_obj.type)>>)
                    IN  [k \in DOMAIN @ \cup {sent_index} |->
                            IF k = sent_index THEN new ELSE @[k]]]

\* One iteration of "for entity_obj in entity_list" of load_dataset.  a holds
\* the unit's entity objects seen so far and the accumulators the loop grows.
WordEntityStep(a, entity_obj, sent_index, f, config) ==
    LET pos == get_entity_token_position(entity_obj)
        entity_token_begin == pos[1]
        entity_token_end == pos[2]
        memo == [entity_obj EXCEPT
                   !.bert_token_pos = <<entity_token_begin + 1, entity_token_end + 1>>]
    IN  IF f.is_skip_unknown /\ entity_obj.type = "unknown"
        THEN [a EXCEPT !.entity_list = Append(@, entity_obj)]
        ELSE IF entity_token_end >= config.max_seq_len - 2
        THEN [a EXCEPT !.entity_list = Append(@, entity_obj)]
        ELSE IF WordJoint(f)
        THEN IF entity_obj.type = "unknown"
             THEN [a EXCEPT !.entity_list = Append(@, memo)]
             ELSE [a EXCEPT
                     !.entity_list = Append(@, memo),
                     !.all_entity_begins = Append(@, entity_token_begin + 1),
                     !.all_entity_ends = Append(@, entity_token_end + 1),
                     !.all_entity_type_labels = Append(@, type_label_id(entity_obj.type)),
                     !.seq_entity_num = @ + 1]
        ELSE [a EXCEPT
                !.entity_list = Append(@, memo),
                !.sent_entity_dict =
                    LET old == IF sent_index \in DOMAIN @ THEN @[sent_index] ELSE <<>>
                        new == Append(old, <<entity_token_begin + 1, entity_token_end + 1,
                                             type_label_id(entity_obj.type)>>)
                    IN  [k \in DOMAIN @ \cup {sent_index} |->
                            IF k = sent_index THEN new ELSE @[k]]]

RECURSIVE WordEntityLoop(_, _, _, _, _)
WordEntityLoop(a, entity_list, sent_index, f, config) ==
    IF entity_list = <<>>
    THEN a
    ELSE WordEntityLoop(WordEntityStep(a, Head(entity_list), sent_index, f, config),
                        Tail(entity_list), sent_index, f, config)

\* One iteration of "for sent_index, split_text_obj in enumerate(...)".
WordUnitStep(a, split_text_obj, sent_index, f, config) ==
    LET encoded_dict == [encoding_of |-> sent_index]
    IN  IF WordLabelled(f)
        THEN LET b == WordEntityLoop([a EXCEPT !.entity_list = <<>>, !.seq_entity_num = 0],
                                     ListOf(split_text_obj, WordListName(f)),
                                     sent_index, f, config)
                 labels == get_token_label(b.entity_list, f.is_only_boundary, config)
                 connect_ids == [i \in 1..Len(labels.seq_connect_label) |->
                                    connect_label_id(labels.seq_connect_label[i])]
                 n == IF WordJoint(f) THEN b.seq_entity_num ELSE 1
             IN  [b EXCEPT
                    !.objs = Append(@, b.entity_list),
                    !.all_token_encode_list = @ \o Repeat(encoded_dict, n),
                    !.all_token_connect_mask = @ \o Repeat(labels.token_connect_mask, n),
                    !.all_token_connect_labels = @ \o Repeat(connect_ids, n),
                    !.all_sent_index_list = @ \o Repeat(sent_index, n),
                    !.all_entity_begins = IF WordJoint(f) THEN @ ELSE Append(@, 0),
                    !.all_entity_ends = IF WordJoint(f) THEN @ ELSE Append(@, 0),
                    !.all_entity_type_labels = IF WordJoint(f) THEN @ ELSE Append(@, 0),
                    !.all_bios_word_list =
                        Append(@, [seq_connect_label |-> labels.seq_connect_label,
                                   seq_type_label |-> labels.seq_type_label])]
        ELSE [a EXCEPT
                !.objs = Append(@, <<>>),
                !.all_token_encode_list = Append(@, encoded_dict),
                !.all_token_connect_mask = Append(@, [attention_mask_of |-> sent_index]),
                !.all_token_connect_labels =
                    Append(@, Repeat(connect_label_id("B"), config.max_seq_len - 1)),
                !.all_entity_begins = Append(@, 0),
                !.all_entity_ends = Append(@, 0),
                !.all_entity_type_labels = Append(@, 0),
                !.all_sent_index_list = Append(@, sent_index),
                !.all_bios_word_list =
                    Append(@, [seq_connect_label |-> Repeat("B", config.max_seq_len - 1),
                               seq_type_label |-> Repeat("None", config.max_seq_len)])]

RECURSIVE WordUnitLoop(_, _, _, _, _)
WordUnitLoop(a, units, sent_index, f, config) ==
    IF units = <<>>
    THEN a
    ELSE WordUnitLoop(WordUnitStep(a, Head(units), sent_index, f, config),
                      Tail(units), sent_index + 1, f, config)

\* the lists of load_dataset before its loop
WordStart ==
    [objs |-> <<>>, entity_list |-> <<>>, seq_entity_num |-> 0,
     all_token_connect_mask |-> <<>>, all_token_connect_labels |-> <<>>,
     all_entity_begins |-> <<>>, all_entity_ends |-> <<>>,
     all_entity_type_labels |-> <<>>, all_sent_index_list |-> <<>>,
     all_bios_word_list |-> <<>>, all_token_encode_list |-> <<>>,
     sent_entity_dict |-> <<>>]

\* the assert of load_dataset before the tensors are built
WordAssert(a) ==
    /\ Len(a.all_token_encode_list) = Len(a.all_token_connect_mask)
    /\ Len(a.all_token_connect_mask) = Len(a.all_token_connect_labels)
    /\ Len(a.all_token_connect_labels) = Len(a.all_entity_begins)
    /\ Len(a.all_entity_begins) = Len(a.all_entity_ends)
    /\ Len(a.all_entity_ends) = Len(a.all_entity_type_labels)

\* what load_dataset builds from its lists a and returns (sent_entity_dict
\* for dev and test)
WordResult(a, f) ==
        IF ~WordAssert(a)
        THEN [error |-> "AssertionError"]
        ELSE [all_token_connect_mask |-> a.all_token_connect_mask,
              all_token_connect_labels |-> a.all_token_connect_labels,
              all_entity_begins |-> a.all_entity_begins,
              all_entity_ends |-> a.all_entity_ends,
              all_entity_type_labels |-> a.all_entity_type_labels,
              all_sent_index_list |-> a.all_sent_index_list,
              all_token_encode_list |-> a.all_token_encode_list,
              all_bios_word_list |-> a.all_bios_word_list,
              sent_entity_dict |-> IF f.is_dev \/ f.is_test
                                   THEN a.sent_entity_dict
                                   ELSE <<>>]

\* the entity objects load_dataset leaves and what it returns or raises
WordOutcome(units, f, config) ==
    LET u == IF WordLabelled(f)
             THEN FailingUnit(units, WordListName(f), f.is_skip_unknown)
             ELSE 0
        i == FirstFailing(ListOf(units[u], WordListName(f)), f.is_skip_unknown)
        cut == UnitsUntil(units, WordListName(f), u, i)
        a == WordUnitLoop(WordStart, units, 0, f, config)
    IN  IF u = 0
        THEN [objs |-> a.objs, result |-> WordResult(a, f)]
        ELSE [objs |-> PartialObjs(WordUnitLoop(WordStart, cut, 0, f, config).objs,
                                   units, WordListName(f), u, i),
              result |-> TypeError]

WordLoadDataset(f) ==
    /\ call' = [loader |-> "word.load_dataset", flags |-> f]
    /\ objs' = WordOutcome(corpus, f, model_config).objs
    /\ result' = WordOutcome(corpus, f, model_config).result
    /\ UNCHANGED <<model_config, corpus>>

\* ---------------------------------------------------------- span decoders

\* EntityUtil.get_seq_entity(seq_tag_list): the BIO decode rule.  A B- tag
\* opens a span, a matching I- tag extends it, any other tag closes it at the
\* previous index, an I- tag that extends nothing is a span of its own, and a
\* span still open at the end closes at the last index.  chunk is the open
\* span <<type, begin, end>>, or <<>>.
RECURSIVE SeqEntityScan(_, _, _, _)
SeqEntityScan(seq_tag_list, indx, chunk, chunks) ==
    LET closed == IF chunk = <<>> THEN chunks ELSE Append(chunks, chunk)
    IN  IF indx >= Len(seq_tag_list)
        THEN closed
        ELSE LET tag == At(seq_tag_list, indx)
             IN  CASE tag[1] = "B" ->
                        SeqEntityScan(seq_tag_list, indx + 1, <<tag[2], indx, indx>>, closed)
                   [] tag[1] = "I" /\ chunk # <<>> /\ chunk[1] = tag[2] ->
                        SeqEntityScan(seq_tag_list, indx + 1,
                                      <<chunk[1], chunk[2], indx>>, chunks)
                   [] tag[1] = "I" /\ (chunk = <<>> \/ chunk[1] # tag[2]) ->
                        SeqEntityScan(seq_tag_list, indx + 1, <<>>,
                                      Append(closed, <<tag[2], indx, indx>>))
                   [] OTHER ->
                        SeqEntityScan(seq_tag_list, indx + 1, <<>>, closed)

get_seq_entity(seq_tag_list) == SeqEntityScan(seq_tag_list, 0, <<>>, <<>>)

\* [i for i, connect in enumerate(seq_tag_list) if connect == "T"]
RECURSIVE ConnectIndexList(_, _)
ConnectIndexList(seq_tag_list, i) ==
    IF i >= Len(seq_tag_list)
    THEN <<>>
    ELSE (IF At(seq_tag_list, i) = "T" THEN <<i>> ELSE <<>>)
         \o ConnectIndexList(seq_tag_list, i + 1)

\* EntityUtil.get_entity_boundary_no_seg(connect_index_list, max_seq_len): the
\* tie/break decode rule.  Connector i ties token i to token i + 1; a maximal
\* run of k tied connectors from token begin is the span [begin, begin + k],
\* and a token no connector ties is a span of its own.
RECURSIVE BoundaryScan(_, _, _, _, _)
BoundaryScan(tied, seq_len, begin, i, spans) ==
    IF i >= seq_len
    THEN spans
    ELSE IF i \in tied /\ i + 1 < seq_len
         THEN BoundaryScan(tied, seq_len, begin, i + 1, spans)
         ELSE BoundaryScan(tied, seq_len, i + 1, i + 1, Append(spans, <<begin, i>>))

get_entity_boundary_no_seg(connect_index_list, seq_len) ==
    BoundaryScan({connect_index_list[k] : k \in 1..Len(connect_index_list)},
                 seq_len, 0, 0, <<>>)

\* ----------------------------------------------------------- span scores

RECURSIVE Sum(_)
Sum(s) == IF s = <<>> THEN 0 ELSE Head(s) + Sum(Tail(s))

\* round(total / token_num, 2) for a total in hundredths and token_num > 0:
\* the nearest hundredth, the even one when the quotient is half way
Round2(total, token_num) ==
    LET q == total \div token_num
        r == total % token_num
    IN  IF 2 * r < token_num THEN q
        ELSE IF 2 * r > token_num THEN q + 1
        ELSE IF q % 2 = 0 THEN q ELSE q + 1

\* the body of "for entity in pre_entities" of both extract_entity methods:
\* the score appended to entity = [type, begin, end]
EntityScore(seq_score_list, entity) ==
    LET width == entity[3] - entity[2] + 1
        token_num == IF width = 0 THEN Max(1, Len(seq_score_list)) ELSE width
    IN  Round2(Sum(Slice(seq_score_list, entity[2], entity[3] + 1)), token_num)

ScoredEntities(seq_score_list, pre_entities) ==
    [k \in 1..Len(pre_entities) |->
        Append(pre_entities[k], EntityScore(seq_score_list, pre_entities[k]))]

\* BERTSentDataProcessor.extract_entity for one sequence; pre_entities is what
\* EntityUtil.get_seq_entity returned for its tags
SentExtractEntity(seq_score_list, pre_entities, sent_index) ==
    /\ call' = [loader |-> "sent.extract_entity", seq_score_list |-> seq_score_list,
                pre_entities |-> pre_entities]
    /\ result' = [k \in {sent_index} |-> ScoredEntities(seq_score_list, pre_entities)]
    /\ UNCHANGED <<model_config, corpus, objs>>

\* BERTWordProcessor.extract_entity for one sequence; boundaries is what
\* EntityUtil.get_entity_boundary_no_seg returned for its tied connectors
WordExtractEntity(seq_score_list, boundaries, sent_index) ==
    LET pre_entities == [k \in 1..Len(boundaries) |->
                            <<"", boundaries[k][1], boundaries[k][2]>>]
    IN  /\ call' = [loader |-> "word.extract_entity", seq_score_list |-> seq_score_list,
                    pre_entities |-> pre_entities]
        /\ result' = [k \in {sent_index} |-> ScoredEntities(seq_score_list, pre_entities)]
        /\ UNCHANGED <<model_config, corpus, objs>>

\* ----------------------------------------------------------------- inputs

Types == {"per", "loc", "unknown"}

\* the entities of the given types of a unit whose text tokenises to at most
\* m - 1 tokens
Entities(types, m) ==
    {e \in [type : types, token_begin : 0..(m - 2), token_end : 0..(m - 2),
            bert_token_pos : {NoPos}] : e.token_begin <= e.token_end}

Lists(S, n) == UNION {[1..k -> S] : k \in 0..n}

Unit(entity_list, distance_entity_list) ==
    [entity_list |-> entity_list, distance_entity_list |-> distance_entity_list]

NoCall == [loader |-> "none"]

SentFlags ==
    [is_train : BOOLEAN, is_dev : BOOLEAN, is_test : BOOLEAN, is_pred : BOOLEAN,
     is_supervised : BOOLEAN, is_skip_unknown : BOOLEAN]

WordFlags ==
    [is_train : BOOLEAN, is_dev : BOOLEAN, is_test : BOOLEAN,
     is_supervised : BOOLEAN, is_only_boundary : BOOLEAN, is_skip_unknown : BOOLEAN]

MentionFlags ==
    [is_train : BOOLEAN, is_dev : BOOLEAN, is_test : BOOLEAN, is_predict : BOOLEAN]

\* the number of mode flags a call sets
Count(bs) == Cardinality({k \in 1..Len(bs) : bs[k]})

\* ---------------------------------------------------- the label encoders

\* A run is one call of a loader on a corpus: every call reads the corpus
\* file anew (get_split_text_obj), so a later call starts from entity objects
\* without bert_token_pos, as the first one does.  One unit carries the
\* entities; load_dataset of the sentence processor needs PrintedRows units
\* to return.  Units of several entities have a window of MaxSeqLen tokens;
\* a window of 7 tokens, which holds a span [3, 5], has units of one entity.
InitEnc(only_boundary, types) ==
    /\ model_config \in [max_seq_len : {MaxSeqLen, 7}, is_only_boundary : only_boundary]
    /\ \E L \in Lists(Entities(types, model_config.max_seq_len),
                      IF model_config.max_seq_len = MaxSeqLen THEN MaxEntities ELSE 1) :
          corpus = <<Unit(L, L), Unit(<<>>, <<>>), Unit(<<>>, <<>>)>>
    /\ call = NoCall
    /\ objs = <<>>
    /\ result = <<>>

\* BIO labels: supervised training data, either value of is_only_boundary
BioFlags ==
    {f \in SentFlags : f.is_train /\ ~f.is_dev /\ ~f.is_test /\ ~f.is_pred
                       /\ f.is_supervised /\ ~f.is_skip_unknown}

InitBio == InitEnc(BOOLEAN, Types)

NextBio ==
    /\ call = NoCall
    /\ \E f \in BioFlags : SentLoadDataset(f)

SpecBio == InitBio /\ [][NextBio]_vars

\* tie/break labels: supervised dev data, either value of is_only_boundary;
\* get_token_label tells unknown from every other type, so one known type
TieFlags ==
    {f \in WordFlags : ~f.is_train /\ f.is_dev /\ ~f.is_test
                       /\ f.is_supervised /\ ~f.is_skip_unknown}

InitTie == InitEnc({FALSE}, {"per", "unknown"})

NextTie ==
    /\ call = NoCall
    /\ \E f \in TieFlags : WordLoadDataset(f)

SpecTie == InitTie /\ [][NextTie]_vars

\* --------------------------------------------------------- BIO properties

\* the entity objects of the first unit after the call, and its labels
BioDone == call.loader = "sent.load_dataset"

BioList == objs[1]

BioLabel == result.all_data_list[1].seq_label

\* seq_label of get_seq_label after the first k entities of the list
BioAfter(k) == get_seq_label(SubSeq(BioList, 1, k), model_config)

Positions == 0..(model_config.max_seq_len - 1)

\* what one entity writes: B- at begin, I- on (begin, end], of the type ty
WritesSpan(before, after, entity_obj, ty) ==
    /\ Len(after) = model_config.max_seq_len
    /\ \A p \in Positions :
          At(after, p) =
             IF p = entity_obj.bert_token_pos[1] THEN BTag(ty)
             ELSE IF entity_obj.bert_token_pos[1] < p /\ p <= entity_obj.bert_token_pos[2]
                  THEN ITag(ty)
                  ELSE At(before, p)

\* C4 as stated: the sequence has max_seq_len labels, all O before the first
\* entity; an entity with a memoised span [begin, end] sets begin to
\* B-<its own type> and (begin, end] to I-<its own type> and leaves the rest;
\* an entity without a memoised span leaves the sequence untouched.
C4_OwnTypeTags ==
    BioDone =>
       /\ Len(BioAfter(0)) = model_config.max_seq_len
       /\ \A p \in Positions : At(BioAfter(0), p) = O
       /\ BioLabel = BioAfter(Len(BioList))
       /\ \A k \in 1..Len(BioList) :
             IF HasPos(BioList[k])
             THEN WritesSpan(BioAfter(k - 1), BioAfter(k), BioList[k], BioList[k].type)
             ELSE BioAfter(k) = BioAfter(k - 1)

\* C4 amended: as C4, the type of the tags being the entity's own type when
\* model_config.is_only_boundary is off and the fixed type None when it is on.
C4_BioEncoding ==
    BioDone =>
       /\ Len(BioAfter(0)) = model_config.max_seq_len
       /\ \A p \in Positions : At(BioAfter(0), p) = O
       /\ BioLabel = BioAfter(Len(BioList))
       /\ \A k \in 1..Len(BioList) :
             IF HasPos(BioList[k])
             THEN WritesSpan(BioAfter(k - 1), BioAfter(k), BioList[k],
                             IF model_config.is_only_boundary
                             THEN "None" ELSE BioList[k].type)
             ELSE BioAfter(k) = BioAfter(k - 1)

\* a unit with a labelled entity of several tokens and one without a span,
\* is_only_boundary on
C4_Witness ==
    /\ BioDone
    /\ Len(BioList) = 2
    /\ HasPos(BioList[1])
    /\ BioList[1].bert_token_pos[1] < BioList[1].bert_token_pos[2]
    /\ ~HasPos(BioList[2])
    /\ BioList[1].type = "per"
    /\ model_config.is_only_boundary

\* the type of the tags get_seq_label writes for an entity
TagType(entity_obj) ==
    IF model_config.is_only_boundary THEN "None" ELSE entity_obj.type

\* the entities of the list whose memoised span covers position p
Covering(entity_list, p) ==
    {k \in 1..Len(entity_list) :
        /\ HasPos(entity_list[k])
        /\ entity_list[k].bert_token_pos[1] <= p
        /\ p <= entity_list[k].bert_token_pos[2]}

Last(S) == CHOOSE k \in S : \A j \in S : j <= k

\* C10: overlapping entities are resolved by last write wins in list order:
\* every position carries the B-/I- tag of the last entity of the list whose
\* span covers it (so a position the later of two entities covers carries the
\* later one's tag, and one only the earlier covers keeps the earlier one's),
\* and a position no entity covers stays O; nothing is merged.
C10_LastWriteWins ==
    BioDone =>
       \A p \in Positions :
          IF Covering(BioList, p) = {}
          THEN At(BioLabel, p) = O
          ELSE LET entity_obj == BioList[Last(Covering(BioList, p))]
               IN  At(BioLabel, p) =
                      IF p = entity_obj.bert_token_pos[1]
                      THEN BTag(TagType(entity_obj))
                      ELSE ITag(TagType(entity_obj))

\* two entities of different types: the later one starts on the second token
\* of the earlier one, whose first token only the earlier one covers
C10_Witness ==
    /\ BioDone
    /\ ~model_config.is_only_boundary
    /\ Len(BioList) = 2
    /\ HasPos(BioList[1]) /\ HasPos(BioList[2])
    /\ BioList[1].type # BioList[2].type
    /\ BioList[2].bert_token_pos[1] = BioList[1].bert_token_pos[1] + 1
    /\ BioList[1].bert_token_pos[2] >= BioList[2].bert_token_pos[1]
    /\ At(BioLabel, BioList[1].bert_token_pos[1]) = BTag(BioList[1].type)
    /\ At(BioLabel, BioList[2].bert_token_pos[1]) = BTag(BioList[2].type)

\* every entity of the list is known-typed and in the window, and no two of
\* their spans share a token
CleanList(entity_list) ==
    /\ \A k \in 1..Len(entity_list) :
          entity_list[k].type # "unknown" /\ HasPos(entity_list[k])
    /\ \A j, k \in 1..Len(entity_list) :
          j < k => \/ entity_list[j].bert_token_pos[2] < entity_list[k].bert_token_pos[1]
                   \/ entity_list[k].bert_token_pos[2] < entity_list[j].bert_token_pos[1]

\* decoded is the entities' triples <<type, begin, end>>, by start index
IsTriplesOf(decoded, entity_list, TypeOf(_)) ==
    /\ Len(decoded) = Len(entity_list)
    /\ {decoded[k] : k \in 1..Len(decoded)} =
          {<<TypeOf(entity_list[k]), entity_list[k].bert_token_pos[1],
             entity_list[k].bert_token_pos[2]>> : k \in 1..Len(entity_list)}
    /\ \A k \in 1..(Len(decoded) - 1) : decoded[k][2] < decoded[k + 1][2]

OwnType(entity_obj) == entity_obj.type

\* C2 as stated: for non-overlapping known-typed entities inside the window,
\* decoding the labels of get_seq_label returns exactly the triples
\* (type, begin, end) of the entities, by start index.
C2_DecodesOwnTypes ==
    (BioDone /\ CleanList(BioList)) =>
       IsTriplesOf(get_seq_entity(BioLabel), BioList, OwnType)

\* C2 amended: the decoded triples are (type, begin, end) of the entities by
\* start index when model_config.is_only_boundary is off; when it is on they
\* are (None, begin, end).
C2_BioRoundTrip ==
    (BioDone /\ CleanList(BioList)) =>
       IsTriplesOf(get_seq_entity(BioLabel), BioList, TagType)

\* two adjacent entities, the first of several tokens, listed out of order
C2_Witness ==
    /\ BioDone /\ CleanList(BioList)
    /\ ~model_config.is_only_boundary
    /\ Len(BioList) = 2
    /\ BioList[2].bert_token_pos[1] < BioList[2].bert_token_pos[2]
    /\ BioList[1].bert_token_pos[1] = BioList[2].bert_token_pos[2] + 1
    /\ BioList[1].type # BioList[2].type

\* --------------------------------------------------- tie/break properties

\* the entity objects of the first unit after the call, its connector labels
\* and its mask
TieDone == call.loader = "word.load_dataset"

TieList == objs[1]

TieOnly == call.flags.is_only_boundary

TieConnect == result.all_bios_word_list[1].seq_connect_label

TieMask == result.all_token_connect_mask[1]

\* the lists of get_token_label after the first k entities of the list
TieAfter(k) == get_token_label(SubSeq(TieList, 1, k), TieOnly, model_config)

Connectors == 0..(model_config.max_seq_len - 2)

\* connector c lies strictly inside the memoised span of the entity
Inside(entity_obj, c) ==
    /\ HasPos(entity_obj)
    /\ entity_obj.bert_token_pos[1] <= c
    /\ c < entity_obj.bert_token_pos[2]

Unknown(entity_obj) == entity_obj.type = "unknown"

\* C5: the connector sequence has max_seq_len - 1 labels, all B before the
\* first entity; an entity spanning [begin, end] sets exactly the connectors
\* begin .. end - 1 to T, or to B when it is unknown-typed and boundary-only
\* training is on; every other connector, connector end and connector
\* begin - 1 among them, keeps its previous value.
C5_TieBreakEncoding ==
    TieDone =>
       /\ Len(TieAfter(0).seq_connect_label) = model_config.max_seq_len - 1
       /\ \A c \in Connectors : At(TieAfter(0).seq_connect_label, c) = "B"
       /\ TieConnect = TieAfter(Len(TieList)).seq_connect_label
       /\ \A k \in 1..Len(TieList) :
             LET before == TieAfter(k - 1).seq_connect_label
                 after == TieAfter(k).seq_connect_label
             IN  /\ Len(after) = model_config.max_seq_len - 1
                 /\ \A c \in Connectors :
                       At(after, c) =
                          IF Inside(TieList[k], c)
                          THEN IF Unknown(TieList[k]) /\ TieOnly THEN "B" ELSE "T"
                          ELSE At(before, c)

\* one known-typed entity of three tokens after the first token: the two
\* connectors inside it are tied, the one before and the one after are not
C5_Witness ==
    /\ TieDone
    /\ Len(TieList) = 1
    /\ ~Unknown(TieList[1])
    /\ TieList[1].bert_token_pos = <<1, 3>>
    /\ At(TieConnect, 0) = "B"
    /\ At(TieConnect, 1) = "T"
    /\ At(TieConnect, 2) = "T"
    /\ At(TieConnect, 3) = "B"

\* the spans the tie/break decode rule is to return: every entity's span and
\* a singleton for every token no entity touches
SpansOf(entity_list) ==
    {entity_list[k].bert_token_pos : k \in 1..Len(entity_list)}
    \cup {<<p, p>> : p \in {q \in Positions : Covering(entity_list, q) = {}}}

\* C3: for non-overlapping known-typed entities inside the window, the
\* maximal runs of T connectors of get_token_label give back exactly the span
\* of every entity and a singleton span for every token no entity touches, by
\* start index; two adjacent entities are not merged.
C3_TieBreakRoundTrip ==
    (TieDone /\ CleanList(TieList)) =>
       LET decoded == get_entity_boundary_no_seg(ConnectIndexList(TieConnect, 0),
                                                 model_config.max_seq_len)
       IN  /\ {decoded[k] : k \in 1..Len(decoded)} = SpansOf(TieList)
           /\ \A k \in 1..(Len(decoded) - 1) : decoded[k][1] < decoded[k + 1][1]

\* two adjacent entities [1, 2] and [3, 3]
C3_Witness ==
    /\ TieDone /\ CleanList(TieList)
    /\ Len(TieList) = 2
    /\ TieList[1].bert_token_pos = <<1, 2>>
    /\ TieList[2].bert_token_pos = <<3, 3>>

\* C7: with boundary_only off, the connectors inside the span of an
\* unknown-typed entity (connectors 3 and 4 of a span [3, 5]) have mask 0 and
\* label T, and every connector inside no unknown-typed span has mask 1.
C7_UnknownMask ==
    (TieDone /\ ~TieOnly) =>
       /\ \A k \in 1..Len(TieList) :
             Unknown(TieList[k]) =>
                \A c \in Connectors :
                   Inside(TieList[k], c) =>
                      At(TieMask, c) = 0 /\ At(TieConnect, c) = "T"
       /\ \A c \in Connectors :
             (\A k \in 1..Len(TieList) : ~(Unknown(TieList[k]) /\ Inside(TieList[k], c)))
                => At(TieMask, c) = 1

\* the unknown-typed entity spanning [3, 5] in a window of 7 tokens
C7_Witness ==
    /\ TieDone /\ ~TieOnly
    /\ Len(TieList) = 1
    /\ Unknown(TieList[1])
    /\ TieList[1].bert_token_pos = <<3, 5>>
    /\ TieMask = <<1, 1, 1, 0, 0, 1>>

\* the list with every unknown-typed entity given a known type
AsTyped(entity_list) ==
    [k \in 1..Len(entity_list) |->
        IF Unknown(entity_list[k])
        THEN [entity_list[k] EXCEPT !.type = "per"]
        ELSE entity_list[k]]

\* C8 as stated: with boundary_only on, an unknown-typed entity is treated as
\* a known-typed entity with the same span: the connectors and the mask are
\* those of the list with the unknown-typed entities typed.
C8_UnknownAsTyped ==
    (TieDone /\ TieOnly) =>
       /\ TieConnect = get_token_label(AsTyped(TieList), TRUE, model_config).seq_connect_label
       /\ TieMask = get_token_label(AsTyped(TieList), TRUE, model_config).token_connect_mask

\* C8 amended: with boundary_only on, an unknown-typed entity sets the
\* connectors inside its span to B and their mask to 0 (a known-typed entity
\* with the same span sets them to T and leaves the mask), and leaves every
\* other connector and mask value as it was.
C8_BoundaryOnlyBreaks ==
    (TieDone /\ TieOnly) =>
       \A k \in 1..Len(TieList) :
          LET before == TieAfter(k - 1)
              after == TieAfter(k)
          IN  \A c \in Connectors :
                 /\ At(after.seq_connect_label, c) =
                       IF Inside(TieList[k], c)
                       THEN IF Unknown(TieList[k]) THEN "B" ELSE "T"
                       ELSE At(before.seq_connect_label, c)
                 /\ At(after.token_connect_mask, c) =
                       IF Inside(TieList[k], c) /\ Unknown(TieList[k])
                       THEN 0
                       ELSE At(before.token_connect_mask, c)

\* boundary_only on: a known-typed entity ties its connectors, and an
\* unknown-typed entity on the same span breaks them again, mask 0
C8_Witness ==
    /\ TieDone /\ TieOnly
    /\ Len(TieList) = 2
    /\ ~Unknown(TieList[1]) /\ Unknown(TieList[2])
    /\ TieList[1].bert_token_pos = <<1, 3>>
    /\ TieList[2].bert_token_pos = <<1, 3>>
    /\ TieConnect = <<"B", "B", "B", "B">>
    /\ TieMask = <<1, 0, 0, 1>>

\* C9 as stated: whatever the list and boundary_only, every connector inside
\* the span of a known-typed entity is labelled T and has mask 1.
C9_KnownAlwaysTied ==
    TieDone =>
       \A k \in 1..Len(TieList) :
          ~Unknown(TieList[k]) =>
             \A c \in Connectors :
                Inside(TieList[k], c) =>
                   At(TieConnect, c) = "T" /\ At(TieMask, c) = 1

\* C9 amended: whatever the list and boundary_only, every connector inside
\* the span of a known-typed entity and inside the span of no unknown-typed
\* entity of the list is labelled T and has mask 1.
C9_KnownTiedOutsideUnknown ==
    TieDone =>
       \A k \in 1..Len(TieList) :
          ~Unknown(TieList[k]) =>
             \A c \in Connectors :
                (/\ Inside(TieList[k], c)
                 /\ \A j \in 1..Len(TieList) :
                       ~(Unknown(TieList[j]) /\ Inside(TieList[j], c)))
                   => At(TieConnect, c) = "T" /\ At(TieMask, c) = 1

\* boundary_only on: an unknown-typed entity [2, 3] listed before a
\* known-typed entity [1, 3]; connector 1 is inside the known-typed span only
C9_Witness ==
    /\ TieDone /\ TieOnly
    /\ Len(TieList) = 2
    /\ Unknown(TieList[1]) /\ ~Unknown(TieList[2])
    /\ TieList[1].bert_token_pos = <<2, 3>>
    /\ TieList[2].bert_token_pos = <<1, 3>>
    /\ At(TieConnect, 1) = "T" /\ At(TieMask, 1) = 1
    /\ At(TieMask, 2) = 0

\* ------------------------------------------------------ decoded span scores

\* Longest score list of a decoded sequence (besides the five scores below).
MaxScoreLen == 3

\* scores in hundredths: 0.1, 0.2, 0.9, 0.9, 0.3 and the lists over 0.1, 0.9
ScoreLists ==
    {<<10, 20, 90, 90, 30>>} \cup UNION {[1..n -> {10, 90}] : n \in 0..MaxScoreLen}

\* the spans a decoder hands to the scoring loop for n tokens, the empty range
\* begin = end + 1 that the loop provides for included
DecodedSpans(n) == {sp \in (0..n) \X (-1..(n - 1)) : sp[1] <= sp[2] + 1}

InitScore ==
    /\ model_config = [max_seq_len |-> MaxSeqLen, is_only_boundary |-> FALSE]
    /\ corpus = <<>>
    /\ call = NoCall
    /\ objs = <<>>
    /\ result = <<>>

NextScore ==
    \E seq_score_list \in ScoreLists :
       \E spans \in Lists(DecodedSpans(Len(seq_score_list)), 1) :
          \/ SentExtractEntity(seq_score_list,
                               [k \in 1..Len(spans) |-> <<"per", spans[k][1], spans[k][2]>>],
                               0)
          \/ WordExtractEntity(seq_score_list, spans, 0)

SpecScore == InitScore /\ [][NextScore]_vars

ScoreDone == call.loader \in {"sent.extract_entity", "word.extract_entity"}

\* the spans of the call with an empty range, begin = end + 1
EmptyRanges ==
    {k \in 1..Len(call.pre_entities) :
        call.pre_entities[k][2] = call.pre_entities[k][3] + 1}

\* C6: in both extract_entity methods the score attached to a decoded span
\* with an empty range (begin = end + 1) is the mean of the whole
\* seq_score_list rounded to two places.
C6_DegenerateSpanScore ==
    (ScoreDone /\ call.seq_score_list # <<>>) =>
       \A k \in EmptyRanges :
          result[0][k][4] = Round2(Sum(call.seq_score_list), Len(call.seq_score_list))

\* ------------------------------------------------------ the dataset loaders

\* the entities at the edge of the window of m tokens: one or two tokens
\* wide, ending at the last labelled slot, at the first dropped one or beyond
EdgeEntities(m) ==
    {e \in [type : {"per", "unknown"}, token_begin : (m - 4)..(m - 1),
            token_end : (m - 3)..(m - 1), bert_token_pos : {NoPos}] :
        e.token_end - e.token_begin \in {0, 1}}

InitLoad ==
    /\ model_config \in [max_seq_len : {MaxSeqLen, 10}, is_only_boundary : {FALSE}]
    /\ \E L \in Lists(EdgeEntities(model_config.max_seq_len), MaxEntities) :
          corpus = <<Unit(L, L), Unit(<<>>, <<>>), Unit(<<>>, <<>>)>>
    /\ call = NoCall
    /\ objs = <<>>
    /\ result = <<>>

\* calls that name one kind of data
LoadSentFlags ==
    {f \in SentFlags : Count(<<f.is_train, f.is_dev, f.is_test, f.is_pred>>) = 1}

LoadWordFlags ==
    {f \in WordFlags : Count(<<f.is_train, f.is_dev, f.is_test>>) <= 1}

LoadMentionFlags ==
    {f \in MentionFlags : Count(<<f.is_train, f.is_dev, f.is_test, f.is_predict>>) = 1}

NextLoad ==
    /\ call = NoCall
    /\ \/ \E f \in LoadSentFlags : SentLoadDataset(f)
       \/ SentLoadLabelDataset
       \/ SentLoadPhraseDistanceDataset
       \/ \E f \in LoadWordFlags : WordLoadDataset(f)
       \/ \E f \in LoadMentionFlags : MentionLoadDataset(f)

SpecLoad == InitLoad /\ [][NextLoad]_vars

\* ---------------------------------------------------- loader properties

LoadList == corpus[1].entity_list

\* the entity's unshifted token_end is max_seq_len - 3 or smaller
KeptEnd(entity_obj) == entity_obj.token_end <= model_config.max_seq_len - 3

\* the entity's unshifted token_end is max_seq_len - 2 or larger
DroppedEnd(entity_obj) == entity_obj.token_end >= model_config.max_seq_len - 2

Shifted(entity_obj) == <<entity_obj.token_begin + 1, entity_obj.token_end + 1>>

\* the call passes over unknown-typed entities
SkipsUnknown == "flags" \in DOMAIN call /\ "is_skip_unknown" \in DOMAIN call.flags
                /\ call.flags.is_skip_unknown

Passed(entity_obj) == KeptEnd(entity_obj) /\ ~(SkipsUnknown /\ Unknown(entity_obj))

\* the entities of the list that pass, in the order of the list
PassedList == SelectSeq(LoadList, Passed)

\* memoisation by a loader that annotates the entity objects of its list:
\* dropped entities get no span, kept ones their span shifted by one
MemoKept(entity_list) ==
    \A k \in 1..Len(entity_list) :
       /\ DroppedEnd(entity_list[k]) => ~HasPos(entity_list[k])
       /\ Passed(entity_list[k]) => entity_list[k].bert_token_pos = Shifted(entity_list[k])

\* position p is labelled by an entity that passes
InPassed(p) ==
    \E k \in 1..Len(PassedList) :
       Shifted(PassedList[k])[1] <= p /\ p <= Shifted(PassedList[k])[2]

TiedByPassed(c) ==
    \E k \in 1..Len(PassedList) :
       Shifted(PassedList[k])[1] <= c /\ c < Shifted(PassedList[k])[2]

\* the entities a call of the mention loader makes records of
MentionSelected(entity_obj) ==
    /\ KeptEnd(entity_obj)
    /\ \/ (call.flags.is_train \/ call.flags.is_dev \/ call.flags.is_test)
          /\ ~Unknown(entity_obj)
       \/ call.flags.is_predict /\ Unknown(entity_obj)

WordRecorded(entity_obj) == Passed(entity_obj) /\ ~Unknown(entity_obj)

\* C1: in every dataset loader an entity whose unshifted token_end is
\* max_seq_len - 2 or larger gets no memoised span, no label and no record,
\* and an entity whose token_end is max_seq_len - 3 or smaller (not passed
\* over for its type) is kept with its span shifted by one.
C1_TruncationPolicy ==
    /\ call.loader = "sent.load_dataset" =>
          /\ MemoKept(objs[1])
          /\ \A p \in 0..(model_config.max_seq_len - 1) :
                (At(result.all_data_list[1].seq_label, p) # O)
                   <=> (SentLabelled(call.flags) /\ InPassed(p))
    /\ call.loader = "sent.load_label_dataset" =>
          /\ MemoKept(objs[1])
          /\ result[0].entity_list = objs[1]
          /\ Len(objs[1]) = Len(LoadList)
    /\ call.loader = "sent.load_phrase_distance_dataset" =>
          /\ Len(result[0]) = Len(PassedList)
          /\ \A k \in 1..Len(PassedList) :
                /\ result[0][k].type = PassedList[k].type
                /\ result[0][k].bert_token_pos = Shifted(PassedList[k])
    /\ call.loader = "word.load_dataset" =>
          /\ MemoKept(objs[1])
          /\ \A c \in Connectors :
                (At(result.all_bios_word_list[1].seq_connect_label, c) = "T")
                   => (WordLabelled(call.flags) /\ TiedByPassed(c))
          /\ WordLabelled(call.flags) /\ WordJoint(call.flags) =>
                LET recorded == SelectSeq(LoadList, WordRecorded)
                IN  /\ Len(result.all_entity_ends) = Len(recorded)
                    /\ \A k \in 1..Len(recorded) :
                          /\ result.all_entity_begins[k] = Shifted(recorded[k])[1]
                          /\ result.all_entity_ends[k] = Shifted(recorded[k])[2]
          /\ call.flags.is_dev \/ call.flags.is_test =>
                LET listed == IF 0 \in DOMAIN result.sent_entity_dict
                              THEN result.sent_entity_dict[0]
                              ELSE <<>>
                IN  /\ Len(listed) = Len(PassedList)
                    /\ \A k \in 1..Len(PassedList) :
                          /\ listed[k][1] = Shifted(PassedList[k])[1]
                          /\ listed[k][2] = Shifted(PassedList[k])[2]
    /\ call.loader = "mention.load_dataset" =>
          LET selected == SelectSeq(LoadList, MentionSelected)
          IN  /\ Len(result.all_data_list) = Len(selected)
              /\ \A k \in 1..Len(selected) :
                    /\ result.all_data_list[k].mention_beg = Shifted(selected[k])[1]
                    /\ result.all_data_list[k].mention_end = Shifted(selected[k])[2]

\* max_seq_len = 10: the entity with token_end 8 is dropped, the one with
\* token_end 7 is kept and labelled up to position 8
C1_Witness ==
    /\ call.loader = "sent.load_dataset"
    /\ SentLabelled(call.flags)
    /\ model_config.max_seq_len = 10
    /\ Len(objs[1]) = 2
    /\ objs[1][1].token_end = 8 /\ ~HasPos(objs[1][1])
    /\ objs[1][2].token_end = 7 /\ objs[1][2].bert_token_pos = <<7, 8>>
    /\ At(result.all_data_list[1].seq_label, 8) # O
    /\ At(result.all_data_list[1].seq_label, 9) = O

\* ------------------------------------------------ corpora of several units

\* the entities of the units, each with its form: kept ones of the types per,
\* unknown and loc, and dropped ones of the types per and unknown
FormEntity(form, type, token_begin, token_end) ==
    [form |-> form, type |-> type, token_begin |-> token_begin,
     token_end |-> token_end, bert_token_pos |-> NoPos]

FormEntities(m) ==
    {FormEntity("a", "per", m - 4, m - 3), FormEntity("b", "unknown", 0, 1),
     FormEntity("c", "loc", 0, 0), FormEntity("d", "per", m - 3, m - 2),
     FormEntity("e", "unknown", m - 2, m - 2)}

\* what distant supervision found in a unit: nothing, or three phrases
DistanceLists(m) ==
    {<<>>, <<FormEntity("b", "unknown", 0, 1), FormEntity("a", "per", m - 4, m - 3),
             FormEntity("e", "unknown", m - 2, m - 2)>>}

\* the gold entities of the second unit
SecondLists(m) ==
    {<<>>, <<FormEntity("c", "loc", 0, 0)>>,
     <<FormEntity("a", "per", m - 4, m - 3), FormEntity("b", "unknown", 0, 1)>>}

InitUnits ==
    /\ model_config = [max_seq_len |-> MaxSeqLen, is_only_boundary |-> FALSE]
    /\ \E L1 \in Lists(FormEntities(MaxSeqLen), MaxEntities) :
          \E L2 \in SecondLists(MaxSeqLen) :
             \E D1 \in DistanceLists(MaxSeqLen) :
                \E D2 \in DistanceLists(MaxSeqLen) :
                   corpus = <<Unit(L1, D1), Unit(L2, D2)>>
    /\ call = NoCall
    /\ objs = <<>>
    /\ result = <<>>

\* BERTMentionProcess.predict: one label and one score per record of the
\* loader, in the order of the records (scores in hundredths)
Predictions(n) == [1..n -> {"per", "loc"}]

PredictionScores(n) == {[k \in 1..n |-> 90 - k]}

\* a call of a loader, or the output of the predictions made for the records
\* of load_dataset(is_predict=True)
NextUnits ==
    \/ /\ call = NoCall
       /\ \/ \E f \in WordFlags : WordLoadDataset(f)
          \/ \E f \in LoadMentionFlags : MentionLoadDataset(f)
    \/ /\ call.loader = "mention.load_dataset"
       /\ call.flags.is_predict
       /\ \E types \in Predictions(Len(result.all_data_list)) :
             \E scores \in PredictionScores(Len(result.all_data_list)) :
                OutputMentionType(types, scores)

SpecUnits == InitUnits /\ [][NextUnits]_vars

\* ------------------------------------------------- unit record properties

WordDone == call.loader = "word.load_dataset"

\* the list of unit u a training call of the word loader reads
TrainList(u) ==
    IF call.flags.is_supervised
    THEN corpus[u].entity_list
    ELSE corpus[u].distance_entity_list

\* the entity is in the window and not unknown-typed
Qualifies(entity_obj) == KeptEnd(entity_obj) /\ ~Unknown(entity_obj)

RECURSIVE PairsOf(_, _)
PairsOf(u, entity_list) ==
    IF entity_list = <<>>
    THEN <<>>
    ELSE <<<<u, Head(entity_list)>>>> \o PairsOf(u, Tail(entity_list))

\* (unit, entity) for the qualifying entities of units u, u + 1, ... in order
RECURSIVE JointPairs(_)
JointPairs(u) ==
    IF u > Len(corpus)
    THEN <<>>
    ELSE PairsOf(u, SelectSeq(TrainList(u), Qualifies)) \o JointPairs(u + 1)

\* the connector labels and the mask of unit u, from its annotated list
UnitLabels(u) == get_token_label(objs[u], call.flags.is_only_boundary, model_config)

RECURSIVE IdsOf(_)
IdsOf(seq_connect_label) ==
    IF seq_connect_label = <<>>
    THEN <<>>
    ELSE <<connect_label_id(Head(seq_connect_label))>> \o IdsOf(Tail(seq_connect_label))

\* C11: with is_train on and is_only_boundary off the word loader returns one
\* record per entity that is in the window and not unknown-typed, unit after
\* unit and in list order; the record has the unit's encoding, the unit's
\* connector labels and mask, the unit's sent_index and the entity's
\* (begin + 1, end + 1, type id); a unit without such an entity has no record.
C11_JointReplication ==
    (WordDone /\ call.flags.is_train /\ ~call.flags.is_only_boundary) =>
       LET pairs == JointPairs(1)
       IN  /\ Len(result.all_token_encode_list) = Len(pairs)
           /\ Len(result.all_token_connect_mask) = Len(pairs)
           /\ Len(result.all_token_connect_labels) = Len(pairs)
           /\ Len(result.all_sent_index_list) = Len(pairs)
           /\ Len(result.all_entity_begins) = Len(pairs)
           /\ Len(result.all_entity_ends) = Len(pairs)
           /\ Len(result.all_entity_type_labels) = Len(pairs)
           /\ \A k \in 1..Len(pairs) :
                 LET u == pairs[k][1]
                     entity_obj == pairs[k][2]
                 IN  /\ result.all_token_encode_list[k] = [encoding_of |-> u - 1]
                     /\ result.all_token_connect_labels[k]
                           = IdsOf(UnitLabels(u).seq_connect_label)
                     /\ result.all_token_connect_mask[k] = UnitLabels(u).token_connect_mask
                     /\ result.all_sent_index_list[k] = u - 1
                     /\ result.all_entity_begins[k] = entity_obj.token_begin + 1
                     /\ result.all_entity_ends[k] = entity_obj.token_end + 1
                     /\ result.all_entity_type_labels[k] = type_label_id(entity_obj.type)

\* supervised joint training: the first unit lists two known-typed entities in
\* the window and gives two records, the second unit lists none and gives none
C11_Witness ==
    /\ WordDone /\ call.flags.is_train /\ ~call.flags.is_only_boundary
    /\ call.flags.is_supervised /\ ~call.flags.is_skip_unknown
    /\ Len(corpus[1].entity_list) = 2
    /\ corpus[1].entity_list[1].form = "c" /\ corpus[1].entity_list[2].form = "a"
    /\ corpus[2].entity_list = <<>>
    /\ result.all_sent_index_list = <<0, 0>>
    /\ result.all_entity_begins = <<1, MaxSeqLen - 3>>
    /\ result.all_entity_type_labels = <<2, 1>>

RECURSIVE TriplesOf(_)
TriplesOf(entity_list) ==
    IF entity_list = <<>>
    THEN <<>>
    ELSE <<<<Head(entity_list).token_begin + 1, Head(entity_list).token_end + 1,
             type_label_id(Head(entity_list).type)>>>>
         \o TriplesOf(Tail(entity_list))

\* C12: for dev or test data the word loader returns one record per unit, in
\* unit order, with begin = end = type = 0, and a sent_entity_dict that maps
\* the sent_index of a unit to the (begin + 1, end + 1, type id) of the
\* entities of its gold entity_list that are in the window and not skipped,
\* in list order; a unit without such an entity has no key.
C12_OneRecordPerUnit ==
    (WordDone /\ ~call.flags.is_train /\ (call.flags.is_dev \/ call.flags.is_test)) =>
       /\ Len(result.all_token_encode_list) = Len(corpus)
       /\ Len(result.all_token_connect_mask) = Len(corpus)
       /\ Len(result.all_token_connect_labels) = Len(corpus)
       /\ Len(result.all_sent_index_list) = Len(corpus)
       /\ Len(result.all_entity_begins) = Len(corpus)
       /\ Len(result.all_entity_ends) = Len(corpus)
       /\ Len(result.all_entity_type_labels) = Len(corpus)
       /\ DOMAIN result.sent_entity_dict \subseteq 0..(Len(corpus) - 1)
       /\ \A u \in 1..Len(corpus) :
             LET listed == SelectSeq(corpus[u].entity_list, Passed)
             IN  /\ result.all_token_encode_list[u] = [encoding_of |-> u - 1]
                 /\ result.all_token_connect_labels[u]
                       = IdsOf(UnitLabels(u).seq_connect_label)
                 /\ result.all_token_connect_mask[u] = UnitLabels(u).token_connect_mask
                 /\ result.all_sent_index_list[u] = u - 1
                 /\ result.all_entity_begins[u] = 0
                 /\ result.all_entity_ends[u] = 0
                 /\ result.all_entity_type_labels[u] = 0
                 /\ IF listed = <<>>
                    THEN (u - 1) \notin DOMAIN result.sent_entity_dict
                    ELSE /\ (u - 1) \in DOMAIN result.sent_entity_dict
                         /\ result.sent_entity_dict[u - 1] = TriplesOf(listed)

\* dev data without supervision: the first unit has a kept and a dropped gold
\* entity and a distant list that is not read, the second unit has no entity
C12_Witness ==
    /\ WordDone /\ ~call.flags.is_train /\ call.flags.is_dev
    /\ ~call.flags.is_supervised
    /\ Len(corpus[1].entity_list) = 2
    /\ corpus[1].entity_list[1].form = "a" /\ corpus[1].entity_list[2].form = "d"
    /\ corpus[1].distance_entity_list # <<>>
    /\ corpus[2].entity_list = <<>>
    /\ result.all_entity_begins = <<0, 0>>
    /\ DOMAIN result.sent_entity_dict = {0}
    /\ result.sent_entity_dict[0] = <<<<MaxSeqLen - 3, MaxSeqLen - 2, 1>>>>

\* ------------------------------------------------------ repeated passes

\* Passes over units that stay in memory: a pass reads the entity objects the
\* passes before it left, bert_token_pos included, and annotates them in
\* place.  (The passes above read their units anew.)

\* Passes of one behaviour.
MaxPasses == 2

PassNo == IF "pass" \in DOMAIN call THEN call.pass ELSE 0

\* the units with the list list_name of every unit replaced by lists[u]
RECURSIVE WriteBack(_, _, _)
WriteBack(units, list_name, lists) ==
    IF units = <<>>
    THEN <<>>
    ELSE <<IF list_name = "entity_list"
           THEN [Head(units) EXCEPT !.entity_list = Head(lists)]
           ELSE [Head(units) EXCEPT !.distance_entity_list = Head(lists)]>>
         \o WriteBack(Tail(units), list_name, Tail(lists))

\* BERTSentDataProcessor.load_dataset over units in memory
SentPass(f) ==
    /\ call' = [loader |-> "sent.load_dataset", flags |-> f, pass |-> PassNo + 1,
                before |-> call.loader]
    /\ objs' = SentOutcome(corpus, f, model_config).objs
    /\ result' = SentOutcome(corpus, f, model_config).result
    /\ corpus' = IF SentLabelled(f)
                 THEN WriteBack(corpus, SentListName(f),
                                SentOutcome(corpus, f, model_config).objs)
                 ELSE corpus
    /\ UNCHANGED model_config

\* BERTSentDataProcessor.load_label_dataset over units in memory
LabelPass ==
    /\ call' = [loader |-> "sent.load_label_dataset", pass |-> PassNo + 1,
                before |-> call.loader]
    /\ objs' = LabelOutcome(corpus, model_config).objs
    /\ result' = LabelOutcome(corpus, model_config).result
    /\ corpus' = WriteBack(corpus, "entity_list", LabelOutcome(corpus, model_config).objs)
    /\ UNCHANGED model_config

\* the units with the phrases the trie finds in them: entity objects made by
\* the search, new at every pass
Matches(units) ==
    [u \in 1..Len(units) |->
        [units[u] EXCEPT !.distance_entity_list =
            [k \in 1..Len(@) |-> [@[k] EXCEPT !.bert_token_pos = NoPos]]]]

\* BERTSentDataProcessor.load_phrase_distance_dataset over units in memory
PhrasePass ==
    /\ call' = [loader |-> "sent.load_phrase_distance_dataset", pass |-> PassNo + 1,
                before |-> call.loader]
    /\ objs' = PhraseOutcome(Matches(corpus), model_config).objs
    /\ result' = PhraseOutcome(Matches(corpus), model_config).result
    /\ UNCHANGED <<model_config, corpus>>

\* BERTWordProcessor.load_dataset over units in memory
WordPass(f) ==
    /\ call' = [loader |-> "word.load_dataset", flags |-> f, pass |-> PassNo + 1,
                before |-> call.loader]
    /\ objs' = WordOutcome(corpus, f, model_config).objs
    /\ result' = WordOutcome(corpus, f, model_config).result
    /\ corpus' = IF WordLabelled(f)
                 THEN WriteBack(corpus, WordListName(f),
                                WordOutcome(corpus, f, model_config).objs)
                 ELSE corpus
    /\ UNCHANGED model_config

\* training calls, with and without supervision and the skip of unknown
PassSentFlags ==
    {f \in SentFlags : f.is_train /\ ~f.is_dev /\ ~f.is_test /\ ~f.is_pred}

PassWordFlags ==
    {f \in WordFlags : f.is_train /\ ~f.is_dev /\ ~f.is_test}

InitPasses ==
    /\ model_config = [max_seq_len |-> MaxSeqLen, is_only_boundary |-> FALSE]
    /\ \E L \in Lists(FormEntities(MaxSeqLen), MaxEntities) :
          \E D \in DistanceLists(MaxSeqLen) :
             corpus = <<Unit(L, D), Unit(<<>>, <<>>), Unit(<<>>, <<>>)>>
    /\ call = NoCall
    /\ objs = <<>>
    /\ result = <<>>

NextPasses ==
    /\ PassNo < MaxPasses
    /\ \/ \E f \in PassSentFlags : SentPass(f)
       \/ LabelPass
       \/ PhrasePass
       \/ \E f \in PassWordFlags : WordPass(f)

SpecPasses == InitPasses /\ [][NextPasses]_vars

\* -------------------------------------------------------- pass properties

\* every entity object in memory: those of the units and those the last pass
\* handled or made
MemoObjects ==
    LET of(list) == {list[k] : k \in 1..Len(list)}
    IN  UNION {of(corpus[u].entity_list) \cup of(corpus[u].distance_entity_list)
               : u \in 1..Len(corpus)}
        \cup UNION {of(objs[u]) : u \in 1..Len(objs)}

\* C13: after any passes of load_dataset, load_label_dataset and
\* load_phrase_distance_dataset with one max_seq_len, no entity object whose
\* aligned token_end is max_seq_len - 2 or more carries bert_token_pos, and
\* every bert_token_pos ends at max_seq_len - 2 or before.
C13_MemoInvariant ==
    \A entity_obj \in MemoObjects :
       /\ DroppedEnd(entity_obj) => ~HasPos(entity_obj)
       /\ HasPos(entity_obj) => entity_obj.bert_token_pos[2] <= model_config.max_seq_len - 2

\* after load_label_dataset and one more pass: the gold list holds a kept
\* entity, annotated up to max_seq_len - 2, and a dropped one, not annotated
C13_Witness ==
    /\ PassNo = 2
    /\ call.before = "sent.load_label_dataset"
    /\ Len(corpus[1].entity_list) = 2
    /\ corpus[1].entity_list[1].form = "a"
    /\ corpus[1].entity_list[1].bert_token_pos[2] = model_config.max_seq_len - 2
    /\ corpus[1].entity_list[2].form = "d"
    /\ ~HasPos(corpus[1].entity_list[2])

\* position p is inside the span, shifted once, of an annotated entity
InMemo(entity_list, p) ==
    \E k \in 1..Len(entity_list) :
       /\ HasPos(entity_list[k])
       /\ entity_list[k].token_begin + 1 <= p
       /\ p <= entity_list[k].token_end + 1

\* C14: after any number of passes the bert_token_pos of an entity object is
\* (token_begin + 1, token_end + 1) for the aligner's span, and get_seq_label
\* and get_token_label label the positions of that pair, shifted no further.
C14_ShiftOnce ==
    /\ \A entity_obj \in MemoObjects :
          HasPos(entity_obj) => entity_obj.bert_token_pos = Shifted(entity_obj)
    /\ (call.loader = "sent.load_dataset") =>
          \A p \in Positions :
             (At(result.all_data_list[1].seq_label, p) # O) <=> InMemo(objs[1], p)
    /\ (call.loader = "word.load_dataset") =>
          /\ \A p \in Positions :
                (At(result.all_bios_word_list[1].seq_type_label, p) # "None")
                   <=> InMemo(objs[1], p)
          /\ \A c \in Connectors :
                (At(result.all_bios_word_list[1].seq_connect_label, c) = "T")
                   => (InMemo(objs[1], c) /\ InMemo(objs[1], c + 1))

\* the gold entity "a" annotated by load_label_dataset and read again by a
\* supervised pass of the sentence loader: labelled at its span shifted once
C14_Witness ==
    /\ PassNo = 2
    /\ call.before = "sent.load_label_dataset"
    /\ call.loader = "sent.load_dataset"
    /\ call.flags.is_supervised
    /\ Len(objs[1]) = 1
    /\ objs[1][1].form = "a"
    /\ objs[1][1].bert_token_pos = <<MaxSeqLen - 3, MaxSeqLen - 2>>
    /\ At(result.all_data_list[1].seq_label, MaxSeqLen - 3) = BTag("per")
    /\ At(result.all_data_list[1].seq_label, MaxSeqLen - 2) = ITag("per")
    /\ At(result.all_data_list[1].seq_label, MaxSeqLen - 1) = O

\* ------------------------------------------------- entities without a span

\* entities the aligner resolves no token span for
Unaligned(form, type) == [form |-> form, type |-> type, bert_token_pos |-> NoPos]

AlignEntities(m) ==
    FormEntities(m) \cup {Unaligned("u", "per"), Unaligned("v", "unknown")}

InitAlign ==
    /\ model_config = [max_seq_len |-> MaxSeqLen, is_only_boundary |-> FALSE]
    /\ \E L1 \in Lists(AlignEntities(MaxSeqLen), MaxEntities) :
          \E L2 \in SecondLists(MaxSeqLen) :
             corpus = <<Unit(L1, L1), Unit(L2, L2), Unit(<<>>, <<>>)>>
    /\ call = NoCall
    /\ objs = <<>>
    /\ result = <<>>

NextAlign ==
    /\ call = NoCall
    /\ \/ \E f \in LoadSentFlags : SentLoadDataset(f)
       \/ \E f \in LoadWordFlags : WordLoadDataset(f)
       \/ \E f \in LoadMentionFlags : MentionLoadDataset(f)

SpecAlign == InitAlign /\ [][NextAlign]_vars

Aligned(entity_obj) == get_entity_token_position(entity_obj) # None

\* C15: an entity the aligner returns None for is passed over: load_dataset
\* does not abort, it returns the record of every unit, and the entities of
\* the unit that do resolve and end inside the window are annotated as usual.
C15_AlignmentDroppedSkips ==
    (call.loader \in {"sent.load_dataset", "word.load_dataset", "mention.load_dataset"}) =>
       /\ result # TypeError
       /\ (call.loader = "sent.load_dataset") =>
             Len(result.all_data_list) = Len(corpus)
       /\ (call.loader = "word.load_dataset" /\ ~WordJoint(call.flags)) =>
             Len(result.all_sent_index_list) = Len(corpus)
       /\ (call.loader # "mention.load_dataset") =>
             \A u \in 1..Len(objs) :
                \A k \in 1..Len(objs[u]) :
                   (Aligned(objs[u][k]) /\ Passed(objs[u][k])) => HasPos(objs[u][k])

MentionDone == call.loader = "mention.load_dataset"

\* the list of unit u a call of the mention loader is to read
MentionList(u) ==
    IF call.flags.is_dev \/ call.flags.is_test
    THEN corpus[u].entity_list
    ELSE corpus[u].distance_entity_list

RECURSIVE MentionRecordsOf(_)
MentionRecordsOf(entity_list) ==
    IF entity_list = <<>>
    THEN <<>>
    ELSE <<[mention_beg |-> Head(entity_list).token_begin + 1,
            mention_end |-> Head(entity_list).token_end + 1,
            mention_label |-> IF call.flags.is_predict
                              THEN PlaceholderLabel
                              ELSE Head(entity_list).type]>>
         \o MentionRecordsOf(Tail(entity_list))

RECURSIVE MentionRecords(_)
MentionRecords(u) ==
    IF u > Len(corpus)
    THEN <<>>
    ELSE MentionRecordsOf(SelectSeq(MentionList(u), MentionSelected))
         \o MentionRecords(u + 1)

OutputDone == call.loader = "mention.output_mention_type"

\* the entity is one output_mention_type is to list
IsPredicted(entity_obj) == KeptEnd(entity_obj) /\ Unknown(entity_obj)

\* the forms of the unknown-typed entities in the window of the distant lists
\* of units u, u + 1, ...
RECURSIVE PredictedForms(_)
PredictedForms(u) ==
    IF u > Len(corpus)
    THEN <<>>
    ELSE LET listed == SelectSeq(corpus[u].distance_entity_list, IsPredicted)
         IN  [k \in 1..Len(listed) |-> listed[k].form] \o PredictedForms(u + 1)

\* C17: the mentions output_mention_type lists are as many as the records of
\* load_dataset(is_predict=True) on the same file, with the same positions in
\* the same order: the assertion holds, and row i has the form of mention i
\* with the type and the score predicted for record i.
C17_OutputAligned ==
    OutputDone =>
       /\ DOMAIN result = {"all_mention_result_list"}
       /\ Len(result.all_mention_result_list) = Len(call.predicted)
       /\ \A k \in 1..Len(call.predicted) :
             LET row == result.all_mention_result_list[k]
             IN  /\ row.token_mention_form[3] = call.predicted[k].mention_beg
                 /\ row.token_mention_form[4] = call.predicted[k].mention_end
                 /\ row.mention_form = PredictedForms(1)[k]
                 /\ row.mention_type = call.all_mention_type_list[k]
                 /\ row.mention_score = <<"str", call.all_mention_score_list[k]>>

\* two predicted mentions, one in each unit, typed loc and per
C17_Witness ==
    /\ OutputDone
    /\ Len(call.predicted) = 2
    /\ call.all_mention_type_list = <<"loc", "per">>
    /\ Len(result.all_mention_result_list) = 2
    /\ result.all_mention_result_list[1].mention_type = "loc"
    /\ result.all_mention_result_list[1].token_mention_form = <<"tokens", 1, 1, 2>>
    /\ result.all_mention_result_list[2].mention_type = "per"
    /\ result.all_mention_result_list[2].token_mention_form = <<"tokens", 2, 1, 2>>

\* the lengths of the seven lists of records
RecordLengths(a) ==
    {Len(a.all_token_encode_list), Len(a.all_token_connect_mask),
     Len(a.all_token_connect_labels), Len(a.all_entity_begins),
     Len(a.all_entity_ends), Len(a.all_entity_type_labels),
     Len(a.all_sent_index_list)}

\* the lists of the call after its first n units
AfterUnits(n) ==
    WordUnitLoop(WordStart, SubSeq(corpus, 1, n), 0, call.flags, model_config)

\* C18: whatever the flags of BERTWordProcessor.load_dataset and the corpus,
\* after any number of units the lists of encodings, connector masks,
\* connector labels, entity begins, entity ends, entity type labels and
\* sentence indices have one length, and the assert before the tensors are
\* built does not fail.
C18_AccumulatorsParallel ==
    WordDone =>
       /\ \A n \in 0..Len(corpus) : Cardinality(RecordLengths(AfterUnits(n))) = 1
       /\ DOMAIN result # {"error"}
       /\ Cardinality(RecordLengths(result)) = 1

\* a joint training call in which the first unit gives two records and the
\* second none
C18_Witness ==
    /\ WordDone
    /\ call.flags.is_train /\ ~call.flags.is_only_boundary
    /\ RecordLengths(AfterUnits(1)) = {2}
    /\ RecordLengths(AfterUnits(2)) = {2}
    /\ Len(corpus[2].distance_entity_list) > 0
    /\ DOMAIN result # {"error"}
    /\ Len(result.all_entity_begins) = 2

\* ------------------------------------------------ BERTMentionProcess.train

\* the batches of one epoch at most
MaxBatches == 3

\* model_config.num_epochs, per_eval_batch_step and require_improvement
Epochs == {1, 2}

EvalSteps == {1, 2}

Patience == {0, 1, 2}

\* the accuracies evaluate can return for the dev set, in hundredths
DevAccs == {0, 50, 100}

StopNow_Never(total_batch, last_improve, config) == FALSE

\* "if total_batch - last_improve > self.model_config.require_improvement"
StopNow(total_batch, last_improve, config) ==
    total_batch - last_improve > config.require_improvement

Improved_OrEqual(dev_acc, dev_best_acc) == dev_acc >= dev_best_acc

\* "if dev_acc > dev_best_acc"
Improved(dev_acc, dev_best_acc) == dev_acc > dev_best_acc

\* "if total_batch % self.model_config.per_eval_batch_step == 0"
EvalNow(total_batch, config) == total_batch % config.per_eval_batch_step = 0

\* train up to its loops: the counters, and nothing evaluated or saved yet.
\* call holds the position in the loops (epoch, the index i of the next batch
\* of train_loader), result the local variables, objs the calls of evaluate
\* and of torch.save made so far, each with the batch count and the accuracy.
Train ==
    /\ call = NoCall
    /\ call' = [loader |-> "mention.train", epoch |-> 0, i |-> 0, pc |-> "batch"]
    /\ result' = [total_batch |-> 0, dev_best_acc |-> 0, last_improve |-> 0,
                  no_improve_flag |-> FALSE]
    /\ objs' = [evaluated |-> <<>>, saved |-> <<>>]
    /\ UNCHANGED <<model_config, corpus>>

\* the locals and the calls after the evaluation of a batch with dev accuracy
\* dev_acc ("if total_batch % per_eval_batch_step == 0" and its body)
TrainEvaluate(l, o, dev_acc, config) ==
    IF EvalNow(l.total_batch, config)
    THEN IF Improved(dev_acc, l.dev_best_acc)
         THEN [locals |-> [l EXCEPT !.dev_best_acc = dev_acc,
                                    !.last_improve = l.total_batch],
               calls |-> [evaluated |-> Append(o.evaluated, <<l.total_batch, dev_acc>>),
                          saved |-> Append(o.saved, <<l.total_batch, dev_acc>>)]]
         ELSE [locals |-> l,
               calls |-> [o EXCEPT
                            !.evaluated = Append(@, <<l.total_batch, dev_acc>>)]]
    ELSE [locals |-> l, calls |-> o]

\* One iteration of "for i, batch_data in enumerate(train_loader)": the step
\* of the optimizer, the count, the evaluation when it is due and the test
\* that breaks the loop.
TrainBatch(dev_acc) ==
    /\ call.loader = "mention.train"
    /\ call.pc = "batch"
    /\ call.i < Len(corpus)
    /\ LET counted == [result EXCEPT !.total_batch = @ + 1]
           after == TrainEvaluate(counted, objs, dev_acc, model_config)
           stop == StopNow(after.locals.total_batch, after.locals.last_improve,
                           model_config)
       IN  /\ objs' = after.calls
           /\ result' = [after.locals EXCEPT !.no_improve_flag = @ \/ stop]
           /\ call' = [call EXCEPT !.i = @ + 1,
                                   !.pc = IF stop THEN "break" ELSE "batch"]
    /\ UNCHANGED <<model_config, corpus>>

\* The end of the batch loop, by exhaustion or by break: "if no_improve_flag:
\* break", else the next epoch, if there is one.
TrainEpochEnd ==
    /\ call.loader = "mention.train"
    /\ \/ call.pc = "break"
       \/ call.pc = "batch" /\ call.i = Len(corpus)
    /\ call' = IF result.no_improve_flag
               THEN [call EXCEPT !.pc = "done"]
               ELSE IF call.epoch + 1 < model_config.num_epochs
               THEN [call EXCEPT !.epoch = @ + 1, !.i = 0, !.pc = "batch"]
               ELSE [call EXCEPT !.epoch = @ + 1, !.pc = "done"]
    /\ UNCHANGED <<model_config, corpus, objs, result>>

\* a train_loader of n batches
Batches(n) == [k \in 1..n |-> [batch_of |-> k]]

InitTrain ==
    /\ \E e \in Epochs : \E s \in EvalSteps : \E r \in Patience :
          model_config = [num_epochs |-> e, per_eval_batch_step |-> s,
                          require_improvement |-> r]
    /\ \E n \in 0..MaxBatches : corpus = Batches(n)
    /\ call = NoCall
    /\ objs = <<>>
    /\ result = <<>>

NextTrain ==
    \/ Train
    \/ \E dev_acc \in DevAccs : TrainBatch(dev_acc)
    \/ TrainEpochEnd

SpecTrain == InitTrain /\ [][NextTrain]_vars

\* every step of train ends: the forward and backward pass, evaluate and
\* torch.save return
SpecTrainFair == SpecTrain /\ WF_vars(NextTrain)

\* ------------------------------------------------------ training properties

Training == call # NoCall /\ call.loader = "mention.train"

TrainDone == Training /\ call.pc = "done"

\* num_epochs * len(train_loader)
AllBatches == model_config.num_epochs * Len(corpus)

\* a batch has been processed after which no improvement is too far back
Stalled ==
    /\ Training
    /\ result.total_batch > 0
    /\ result.total_batch - result.last_improve > model_config.require_improvement

\* the step processes a batch
BatchStep == Training /\ result'.total_batch = result.total_batch + 1

\* C19: train ends; it processes at most num_epochs * len(train_loader)
\* batches, no batch after the first one at which total_batch - last_improve
\* exceeds require_improvement, and exactly num_epochs * len(train_loader)
\* batches when there is no such batch.
C19_TrainTerminates ==
    /\ <>TrainDone
    /\ [](Training => result.total_batch <= AllBatches)
    /\ [][BatchStep => ~Stalled]_vars
    /\ [](TrainDone /\ ~Stalled => result.total_batch = AllBatches)

\* a run of two epochs of three batches stopped after its second batch: the
\* first batch improved, the second did not, and no improvement may be further
\* back than the batch before
C19_Witness ==
    /\ TrainDone
    /\ AllBatches = 6
    /\ model_config.require_improvement = 0
    /\ result.total_batch = 2
    /\ result.last_improve = 1
    /\ call.epoch = 0

\* the batch counts at which evaluate has been called
EvaluatedAt == {objs.evaluated[k][1] : k \in 1..Len(objs.evaluated)}

\* the accuracies evaluate has returned
SeenAccs == {objs.evaluated[k][2] : k \in 1..Len(objs.evaluated)}

\* the accuracy is the highest evaluate has returned
Highest(acc) == acc \in SeenAccs /\ \A other \in SeenAccs : other <= acc

\* the first evaluation that returned the highest accuracy
FirstHighest ==
    CHOOSE k \in 1..Len(objs.evaluated) :
       /\ Highest(objs.evaluated[k][2])
       /\ \A j \in 1..(k - 1) : objs.evaluated[j][2] < objs.evaluated[k][2]

\* the step evaluates the dev set
EvaluateStep == Training /\ Len(objs'.evaluated) = Len(objs.evaluated) + 1

\* the step saves the model
SaveStep == Training /\ Len(objs'.saved) = Len(objs.saved) + 1

\* the accuracy the evaluation of the step returned
SteppedAcc == objs'.evaluated[Len(objs'.evaluated)][2]

GetSeqLabel ==
    /\ call' = [loader |-> "sent.get_seq_label",
                entity_list |-> corpus[1].entity_list]
    /\ result' = get_seq_label(corpus[1].entity_list, model_config)
    /\ UNCHANGED <<model_config, corpus, objs>>

\* get_token_label(entity_list, is_only_boundary) on the same
GetTokenLabel(is_only_boundary) ==
    /\ call' = [loader |-> "word.get_token_label",
                entity_list |-> corpus[1].entity_list,
                is_only_boundary |-> is_only_boundary]
    /\ result' = get_token_label(corpus[1].entity_list, is_only_boundary, model_config)
    /\ UNCHANGED <<model_config, corpus, objs>>

\* An entity object with the annotation (token_begin + 1, token_end + 1) of a
\* pass.
Memoised(type, token_begin, token_end) ==
    [type |-> type, token_begin |-> token_begin, token_end |-> token_end,
     bert_token_pos |-> <<token_begin + 1, token_end + 1>>]

\* The entity objects of a unit before a call of an encoder with a window of
\* m tokens: annotated by a pass with the same window (token_end < m - 2) or
\* with a window one token longer (token_end = m - 2), or not annotated.
MemoEntities(m) ==
    {Memoised(type, span[1], span[2]) :
        type \in {"per", "unknown"},
        span \in {s \in (0..(m - 2)) \X (0..(m - 2)) : s[1] <= s[2]}}
    \cup {[type |-> "per", token_begin |-> 0, token_end |-> m - 1,
           bert_token_pos |-> NoPos]}

InitShape ==
    /\ model_config \in [max_seq_len : 2..MaxSeqLen, is_only_boundary : BOOLEAN]
    /\ \E L \in Lists(MemoEntities(model_config.max_seq_len), MaxEntities) :
          corpus = <<Unit(L, L)>>
    /\ call = NoCall
    /\ objs = <<>>
    /\ result = <<>>

NextShape ==
    /\ call = NoCall
    /\ \/ GetSeqLabel
       \/ \E is_only_boundary \in BOOLEAN : GetTokenLabel(is_only_boundary)

SpecShape == InitShape /\ [][NextShape]_vars

\* ----------------------------------------------------- shape properties

\* every annotation of the list lies between the two reserved positions
SpansInWindow ==
    \A k \in 1..Len(call.entity_list) :
       HasPos(call.entity_list[k]) =>
          /\ 1 <= call.entity_list[k].bert_token_pos[1]
          /\ call.entity_list[k].bert_token_pos[1] <= call.entity_list[k].bert_token_pos[2]
          /\ call.entity_list[k].bert_token_pos[2] <= model_config.max_seq_len - 2

\* C21: for an entity list whose annotations satisfy
\* 1 <= begin <= end <= max_seq_len - 2, get_seq_label returns max_seq_len
\* labels, get_token_label returns max_seq_len - 1 connector labels,
\* max_seq_len - 1 mask values and max_seq_len type labels, and positions 0
\* and max_seq_len - 1 of the BIO and type labels and connectors 0 and
\* max_seq_len - 2 have their default values.
C21_LabelShapes ==
    /\ call.loader = "sent.get_seq_label" /\ SpansInWindow =>
          /\ Len(result) = model_config.max_seq_len
          /\ At(result, 0) = O
          /\ At(result, model_config.max_seq_len - 1) = O
    /\ call.loader = "word.get_token_label" /\ SpansInWindow =>
          /\ Len(result.seq_connect_label) = model_config.max_seq_len - 1
          /\ Len(result.token_connect_mask) = model_config.max_seq_len - 1
          /\ Len(result.seq_type_label) = model_config.max_seq_len
          /\ At(result.seq_type_label, 0) = "None"
          /\ At(result.seq_type_label, model_config.max_seq_len - 1) = "None"
          /\ At(result.seq_connect_label, 0) = "B"
          /\ At(result.seq_connect_label, model_config.max_seq_len - 2) = "B"

\* get_token_label on a span from the first to the last position that is not
\* reserved: every label between the reserved ones is written
C21_Witness ==
    /\ call.loader = "word.get_token_label"
    /\ ~call.is_only_boundary
    /\ model_config.max_seq_len = MaxSeqLen
    /\ SpansInWindow
    /\ Len(call.entity_list) = 1
    /\ call.entity_list[1].type = "per"
    /\ call.entity_list[1].bert_token_pos = <<1, MaxSeqLen - 2>>
    /\ \A c \in 1..(MaxSeqLen - 3) : At(result.seq_connect_label, c) = "T"
    /\ \A p \in 1..(MaxSeqLen - 2) : At(result.seq_type_label, p) = "per"
    /\ At(result.seq_connect_label, MaxSeqLen - 2) = "B"
    /\ At(result.seq_type_label, MaxSeqLen - 1) = "None"

====
